---- MODULE Spec2Model ----
(***************************************************************************)
(* Model of the content aggregation pipeline of vc-sentiment-podcast:      *)
(*   src/src/scraper.py     scrape_source, _fetch_url, parse_blog_html,    *)
(*                          filter_by_date                                 *)
(*   src/src/aggregator.py  scrape_all_sources, deduplicate_content,       *)
(*                          _is_similar_content, aggregate_posts           *)
(*   src/src/cli.py         the calls of deduplicate_content and           *)
(*                          aggregate_posts after scraping                 *)
(* Text (titles, bodies) is a sequence of one-character strings; a URL is  *)
(* a sequence of path pieces (only its emptiness and equality are used).   *)
(* A datetime is [t |-> wall-clock instant, tz |-> carries tzinfo].        *)
(***************************************************************************)
EXTENDS Integers, Sequences, FiniteSets, Bags, TLC

VARIABLES
    \* ---- one scrape_source call per task (a submitted future, or a direct call)
    tstate,       \* task -> "idle" | "queued" | "fetch" | "sleeping" | "returned" | "raised"
    targ,         \* task -> the max_retries argument: <<>> is None, <<n>> is the integer n
    max_retries,  \* task -> the local max_retries after line 42
    attempt,      \* task -> the loop variable of line 45
    html,         \* task -> the document fetched by the attempt that returned
    last_error,   \* task -> the local last_error
    tresult,      \* task -> the list the call returned
    terror,       \* task -> the exception the call raised
    calls,        \* task -> number of invocations of scrape_source
    fetches,      \* task -> number of calls of _fetch_url
    sleeps,       \* task -> the durations passed to time.sleep, in order
    outcomes,     \* task -> per attempt, "ok" or the exception it raised
    \* ---- scrape_all_sources
    pc,           \* "off" | "direct" | "submit" | "returned" | "raised"
    vc_sources,   \* the list get_vc_sources() returned
    max_workers,
    start_date, end_date,
    submitted,    \* number of executor.submit calls made
    yielded,      \* task -> number of times as_completed yielded its future
    all_posts, errors,
    result,       \* the list scrape_all_sources returned
    raisedErr,    \* the exception scrape_all_sources raised
    \* ---- deduplicate_content
    dpc,          \* "off" | "loop" | "done"
    posts,        \* the input list
    similarity_threshold, \* <<numerator, denominator>>
    idx,          \* number of input posts already processed by the loop of line 82
    unique_posts, seen_urls,
    deduped,      \* the list deduplicate_content returned
    pass,         \* 1: the call on the original list; 2: the call on its own result
    original,     \* the input of the first call
    \* ---- filter_by_date called on its own
    fpc,          \* "off" | "call" | "done"
    fposts,       \* the input list
    filtered,     \* the list filter_by_date returned
    \* ---- parse_blog_html called on its own
    ppc,          \* "off" | "call" | "done"
    phtml,        \* the document: the article elements the selector matched, in order
    parsed,       \* the list parse_blog_html returned
    \* ---- aggregate_posts
    apc,          \* "off" | "wait" (for deduplicate_content) | "call" | "done"
    aposts,       \* the input list
    document,     \* what the call did: [raised |-> ..., lines |-> ...]
    \* ---- BlogPost.__eq__ and __hash__
    epc,          \* "off" | "call" | "done"
    operands,     \* the three values compared
    verdicts,     \* the results of ==, by pair of operand positions, and the hashes
    \* ---- generate_script
    gpc,          \* "off" | "loop" | "returned" | "raised"
    gmax,         \* the max_retries argument
    gattempt,     \* the loop variable of line 41
    gcalls,       \* number of client.messages.create calls
    greplies,     \* what each call gave, in order: a script or an API error
    gscript,      \* the script generate_script returned
    gerror,       \* the exception generate_script raised
    \* ---- text_to_speech
    tts_pc,       \* "off" | "entry" | "loop" | "returned" | "raised"
    tts_script,   \* the script argument: "blank" (empty or whitespace only) or "text"
    tts_max,      \* the max_retries argument
    tts_attempt,  \* the loop variable of line 46
    tts_calls,    \* number of client.text_to_speech.convert calls
    tts_log,      \* per attempt, in order: what the API gave and the time.sleep after it
    tts_audio,    \* the bytes text_to_speech returned
    tts_error,    \* the exception text_to_speech raised
    \* ---- save_audio and handle_collision
    save_pc,        \* "off" | "entry" | "desktop" | "fallback" | "fallback_collision" | "returned" | "raised"
    save_data,      \* the audio_data argument: "empty" or "bytes"
    desktop_state,  \* the desktop path: "missing" | "not_dir" | "not_writable" | "ok"
    cwd_writable,   \* whether a file can be written in the current directory
    write_fails,    \* whether write_bytes fails on the desktop although touch worked
    files,          \* directory -> the names that exist there when save_audio is called
    written,        \* the paths save_audio has written
    filename_bound, \* whether the local filename of save_audio has been assigned
    hc_pc,          \* handle_collision: "off" | "called" | "loop" | "returned" | "raised"
    filepath,       \* the filepath argument of handle_collision
    counter,        \* the local counter of handle_collision
    hc_result,      \* the path handle_collision returned
    hc_error,       \* the exception handle_collision raised
    saved,          \* the path save_audio returned
    save_error,     \* the exception save_audio raised
    \* ---- cli.py main
    main_pc,      \* "off" | "validate" | "prompt" | "confirm" | the stage to run next | "except" | "returned"
    config_ok,    \* whether both API keys are configured
    time_period,  \* the days of the chosen TimePeriod, 0 before the prompt
    confirmed,    \* the answer to "Start generating podcast?"
    stages,       \* the stage functions main has called, in order, each with its outcome
    collected,    \* len(all_posts)
    unique,       \* len(unique_posts)
    caught,       \* the stage whose exception the except clause caught, "none" if none
    show_trace    \* the answer to "Show detailed error trace?"

taskVars == <<tstate, targ, max_retries, attempt, html, last_error, tresult, terror,
              calls, fetches, sleeps, outcomes>>
orchVars == <<pc, vc_sources, max_workers, start_date, end_date, submitted, yielded,
              all_posts, errors, result, raisedErr>>
dedupVars == <<dpc, posts, similarity_threshold, idx, unique_posts, seen_urls, deduped,
               pass, original>>
filterVars == <<fpc, fposts, filtered>>
parseVars == <<ppc, phtml, parsed>>
aggVars == <<apc, aposts, document>>
stageVars == <<filterVars, parseVars, aggVars>>
eqVars == <<epc, operands, verdicts>>
scriptVars == <<gpc, gmax, gattempt, gcalls, greplies, gscript, gerror>>
ttsVars == <<tts_pc, tts_script, tts_max, tts_attempt, tts_calls, tts_log, tts_audio, tts_error>>
fileVars == <<save_pc, save_data, desktop_state, cwd_writable, write_fails, files, written,
              filename_bound, hc_pc, filepath, counter, hc_result, hc_error, saved,
              save_error>>
mainVars == <<main_pc, config_ok, time_period, confirmed, stages, collected, unique, caught,
              show_trace>>
lateVars == <<eqVars, scriptVars, ttsVars, fileVars, mainVars>>
vars == <<taskVars, orchVars, dedupVars, stageVars, lateVars>>

----------------------------------------------------------------------------
\* Bounds of the model
MaxSources == 2        \* longest source list
MaxWorkers == 2        \* largest max_workers
MaxRetriesArg == 3     \* largest max_retries argument of a direct call
MaxPosts == 3          \* longest input of deduplicate_content
MaxFiles == 3          \* the directories hold any of the first MaxFiles names, or a long run

\* Instants per calendar day
TicksPerDay == 2

\* Program constants
SCRIPT_MIN_WORDS == 100
AUDIO_MIN_BYTES == 1024
COLLISION_LIMIT == 1000
MAX_RETRIES == 3
RETRY_DELAY == 2
CONTENT_PREFIX == 500

Tasks == 1..MaxSources

Min(a, b) == IF a < b THEN a ELSE b

----------------------------------------------------------------------------
\* Data: text
T_ai   == <<"a", "i">>
T_ai2  == <<"a", "i", "s">>
T_saas == <<"x", "y">>
T_padded == <<" ", "a", "i", " ">>
NoText == <<>>

RECURSIVE LStrip(_)
LStrip(s) == IF s # <<>> /\ Head(s) = " " THEN LStrip(Tail(s)) ELSE s
RECURSIVE RStrip(_)
RStrip(s) == IF s # <<>> /\ s[Len(s)] = " " THEN RStrip(SubSeq(s, 1, Len(s) - 1)) ELSE s
\* get_text(strip=True) of an element holding one text node
get_text(s) == RStrip(LStrip(s))

\* Data: datetimes
Naive(t) == [t |-> t, tz |-> FALSE]
Aware(t) == [t |-> t, tz |-> TRUE]
\* datetime.replace(tzinfo=None) when tzinfo is set: the wall-clock fields are kept
strip_tz(d) == IF d.tz THEN [t |-> d.t, tz |-> FALSE] ELSE d

\* Data: source descriptors (src/src/config.py VC_SOURCES), name and entry URL
SourceNames == <<"a16z", "Sequoia Capital", "First Round Review", "AVC (Fred Wilson)">>
SourceConfig(i) == [name |-> SourceNames[i], url |-> <<SourceNames[i], "/">>]
SourceList(n) == [i \in 1..n |-> SourceConfig(i)]

\* Data: documents. An article element: the title element (has, text), the date
\* element (kind "none": no element; "bad": text dateutil cannot parse; "ok"),
\* the content element and the first <a href>.
Article(hasTitle, title, dkind, date, hasContent, content, hasLink, href) ==
    [hasTitle |-> hasTitle, title |-> title, dkind |-> dkind, date |-> date,
     hasContent |-> hasContent, content |-> content, hasLink |-> hasLink, href |-> href]

DocEmpty == <<>>
DocMixed == << Article(TRUE, T_ai2, "ok", Aware(9), TRUE, T_ai, TRUE, <<"p9">>),
               Article(TRUE, T_padded, "ok", Naive(3), TRUE, T_saas, TRUE, <<"p1">>),
               Article(FALSE, NoText, "ok", Naive(3), FALSE, NoText, FALSE, <<>>),
               Article(TRUE, T_saas, "bad", Naive(0), TRUE, T_ai, TRUE, <<"p2">>),
               Article(TRUE, T_saas, "ok", Aware(4), FALSE, NoText, FALSE, <<>>) >>
Docs == {DocEmpty, DocMixed}

FetchErrors == {"Timeout"}
ParseErrors == {"SelectorSyntaxError"}

NoError == [type |-> "none", name |-> "", attempts |-> 0, cause |-> "none"]
NoRaise == [type |-> "none", errors |-> <<>>]

----------------------------------------------------------------------------
\* scraper.py: parse_blog_html and filter_by_date

\* urljoin(base, href) for a relative href (no scheme, no leading slash) against a
\* base ending in "/"
urljoin(base, href) == base \o href

BlogPost(title, date, content, source, url) ==
    [title |-> title, date |-> date, content |-> content, source |-> source, url |-> url]

\* lines 102-143 for one article: <<>> when the element is skipped, else <<post>>
parse_article(a, source_config) ==
    IF ~a.hasTitle THEN <<>>
    ELSE IF a.dkind # "ok" THEN <<>>
    ELSE << BlogPost(get_text(a.title), a.date,
                     IF a.hasContent THEN get_text(a.content) ELSE NoText,
                     source_config.name,
                     IF a.hasLink THEN urljoin(source_config.url, a.href) ELSE <<>>) >>

\* a plausible slip: the first element that cannot be parsed ends the loop
RECURSIVE parse_blog_html_abort(_, _)
parse_blog_html_abort(doc, source_config) ==
    IF doc = <<>> THEN <<>>
    ELSE IF parse_article(Head(doc), source_config) = <<>> THEN <<>>
    ELSE parse_article(Head(doc), source_config)
         \o parse_blog_html_abort(Tail(doc), source_config)

\* lines 96-145: the loop over the article elements
RECURSIVE parse_blog_html(_, _)
parse_blog_html(doc, source_config) ==
    IF doc = <<>> THEN <<>>
    ELSE parse_article(Head(doc), source_config) \o parse_blog_html(Tail(doc), source_config)

\* a plausible slip: the end of the window is exclusive
InRangeEndExclusive(post, start, end) ==
    /\ strip_tz(start).t <= strip_tz(post.date).t
    /\ strip_tz(post.date).t < strip_tz(end).t

\* lines 164-170: start <= post_date <= end on the tz-stripped values
InRange(post, start, end) ==
    /\ strip_tz(start).t <= strip_tz(post.date).t
    /\ strip_tz(post.date).t <= strip_tz(end).t

\* a plausible slip: the retained records are collected in reverse order
RECURSIVE filter_by_date_prepend(_, _, _)
filter_by_date_prepend(ps, start, end) ==
    IF ps = <<>> THEN <<>>
    ELSE filter_by_date_prepend(Tail(ps), start, end)
         \o (IF InRange(Head(ps), start, end) THEN <<Head(ps)>> ELSE <<>>)

\* a plausible slip: the tz-stripped date is stored in the record (post.date = ...)
RECURSIVE filter_by_date_normalising(_, _, _)
filter_by_date_normalising(ps, start, end) ==
    IF ps = <<>> THEN <<>>
    ELSE (IF InRange(Head(ps), start, end)
          THEN << [Head(ps) EXCEPT !.date = strip_tz(@)] >>
          ELSE <<>>)
         \o filter_by_date_normalising(Tail(ps), start, end)

\* lines 161-173
RECURSIVE filter_by_date(_, _, _)
filter_by_date(ps, start, end) ==
    IF ps = <<>> THEN <<>>
    ELSE (IF InRange(Head(ps), start, end) THEN <<Head(ps)>> ELSE <<>>)
         \o filter_by_date(Tail(ps), start, end)

\* parse_blog_html(phtml, SourceConfig(1)) called on its own
Parse ==
    /\ ppc = "call"
    /\ parsed' = parse_blog_html(phtml, SourceConfig(1))
    /\ ppc' = "done"
    /\ UNCHANGED <<phtml, filterVars, aggVars>>
    /\ UNCHANGED <<taskVars, orchVars, dedupVars, lateVars>>

\* filter_by_date(fposts, start_date, end_date) called on its own
Filter ==
    /\ fpc = "call"
    /\ filtered' = filter_by_date(fposts, start_date, end_date)
    /\ fpc' = "done"
    /\ UNCHANGED <<fposts, parseVars, aggVars>>
    /\ UNCHANGED <<taskVars, orchVars, dedupVars, lateVars>>

----------------------------------------------------------------------------
\* scraper.py: scrape_source, one call per task

Running(t) == tstate[t] \in {"fetch", "sleeping"}
Finished(t) == tstate[t] \in {"returned", "raised"}

\* line 42: max_retries = max_retries or Config.MAX_RETRIES (None and 0 are falsy)
EffectiveRetries(arg) == IF arg = <<>> \/ arg[1] = 0 THEN MAX_RETRIES ELSE arg[1]

\* a plausible slip: the message and the chain lose the underlying error
ScraperErrorUnchained(name, n, e) ==
    [type |-> "ScraperError", name |-> name, attempts |-> n, cause |-> "none"]

\* lines 57-59: raise ScraperError(f"Failed to scrape {name} after {max_retries} attempts: {e}") from e
ScraperError(name, n, e) == [type |-> "ScraperError", name |-> name, attempts |-> n, cause |-> e]

\* a plausible slip: the delay is keyed to the 0-based loop index
BackoffZeroBased(a) == RETRY_DELAY * a

\* line 54: the delay slept after the failure of the attempt with loop index a
Backoff(a) == RETRY_DELAY * (a + 1)

\* the source descriptor of task t
ConfigOf(t) == SourceConfig(t)

\* a plausible slip: one thread per submitted call, whatever max_workers is
StartUnbounded(t) ==
    /\ tstate[t] = "queued"
    /\ \A u \in Tasks : u < t => tstate[u] # "queued"
    /\ calls' = [calls EXCEPT ![t] = @ + 1]
    /\ max_retries' = [max_retries EXCEPT ![t] = EffectiveRetries(targ[t])]
    /\ attempt' = [attempt EXCEPT ![t] = 0]
    /\ IF EffectiveRetries(targ[t]) > 0
       THEN /\ tstate' = [tstate EXCEPT ![t] = "fetch"]
            /\ UNCHANGED tresult
       ELSE /\ tstate' = [tstate EXCEPT ![t] = "returned"]
            /\ tresult' = [tresult EXCEPT ![t] = <<>>]
    /\ UNCHANGED <<targ, html, last_error, terror, fetches, sleeps, outcomes>>
    /\ UNCHANGED <<orchVars, dedupVars, stageVars, lateVars>>

\* A worker thread takes the oldest queued work item (ThreadPoolExecutor runs at most
\* max_workers threads over a FIFO queue) and enters scrape_source: lines 42-45.
\* An empty range(max_retries) falls through to line 61.
Start(t) ==
    /\ tstate[t] = "queued"
    /\ \A u \in Tasks : u < t => tstate[u] # "queued"
    /\ Cardinality({u \in Tasks : Running(u)}) < max_workers
    /\ calls' = [calls EXCEPT ![t] = @ + 1]
    /\ max_retries' = [max_retries EXCEPT ![t] = EffectiveRetries(targ[t])]
    /\ attempt' = [attempt EXCEPT ![t] = 0]
    /\ IF EffectiveRetries(targ[t]) > 0
       THEN /\ tstate' = [tstate EXCEPT ![t] = "fetch"]
            /\ UNCHANGED tresult
       ELSE /\ tstate' = [tstate EXCEPT ![t] = "returned"]
            /\ tresult' = [tresult EXCEPT ![t] = <<>>]
    /\ UNCHANGED <<targ, html, last_error, terror, fetches, sleeps, outcomes>>
    /\ UNCHANGED <<orchVars, dedupVars, stageVars, lateVars>>

\* a plausible slip: attempt < max_retries, so the last failure sleeps instead of raising
FailOffByOne(t, e) ==
    /\ last_error' = [last_error EXCEPT ![t] = e]
    /\ outcomes' = [outcomes EXCEPT ![t] = Append(@, e)]
    /\ IF attempt[t] < max_retries[t]
       THEN /\ sleeps' = [sleeps EXCEPT ![t] = Append(@, RETRY_DELAY * (attempt[t] + 1))]
            /\ tstate' = [tstate EXCEPT ![t] = "sleeping"]
            /\ UNCHANGED terror
       ELSE /\ terror' = [terror EXCEPT ![t] =
                   [type |-> "ScraperError", name |-> SourceConfig(t).name,
                    attempts |-> max_retries[t], cause |-> e]]
            /\ tstate' = [tstate EXCEPT ![t] = "raised"]
            /\ UNCHANGED sleeps

\* lines 51-59: the except clause, for the exception e of the current attempt
Fail(t, e) ==
    /\ last_error' = [last_error EXCEPT ![t] = e]
    /\ outcomes' = [outcomes EXCEPT ![t] = Append(@, e)]
    /\ IF attempt[t] < max_retries[t] - 1
       THEN /\ sleeps' = [sleeps EXCEPT ![t] = Append(@, Backoff(attempt[t]))]
            /\ tstate' = [tstate EXCEPT ![t] = "sleeping"]
            /\ UNCHANGED terror
       ELSE /\ terror' = [terror EXCEPT ![t] = ScraperError(ConfigOf(t).name, max_retries[t], e)]
            /\ tstate' = [tstate EXCEPT ![t] = "raised"]
            /\ UNCHANGED sleeps

\* a plausible slip: the parsed posts are returned without the date filter
AttemptResultUnfiltered(d, source_config, start, end) == parse_blog_html(d, source_config)

\* lines 48-50: what a successful attempt returns for the fetched document d
AttemptResult(d, source_config, start, end) ==
    filter_by_date(parse_blog_html(d, source_config), start, end)

\* lines 46-50, one iteration of the loop body: html = _fetch_url(url) (requests.get
\* or raise_for_status may raise), posts = parse_blog_html(html, source_config)
\* (soup.select raises on a selector it cannot compile), filter_by_date, return.
\* The threads share no state, so the body is one step.
Attempt(t) ==
    /\ tstate[t] = "fetch"
    /\ fetches' = [fetches EXCEPT ![t] = @ + 1]
    /\ \/ \E d \in Docs :
            /\ html' = [html EXCEPT ![t] = d]
            /\ tresult' = [tresult EXCEPT ![t] = AttemptResult(d, ConfigOf(t), start_date, end_date)]
            /\ outcomes' = [outcomes EXCEPT ![t] = Append(@, "ok")]
            /\ tstate' = [tstate EXCEPT ![t] = "returned"]
            /\ UNCHANGED <<last_error, sleeps, terror>>
       \/ \E e \in FetchErrors \cup ParseErrors :
            /\ Fail(t, e)
            /\ UNCHANGED <<html, tresult>>
    /\ UNCHANGED <<targ, max_retries, attempt, calls>>
    /\ UNCHANGED <<orchVars, dedupVars, stageVars, lateVars>>

\* line 55 and the loop header: time.sleep returns and the next iteration starts;
\* an exhausted range leaves the loop for line 61
Wake(t) ==
    /\ tstate[t] = "sleeping"
    /\ attempt' = [attempt EXCEPT ![t] = @ + 1]
    /\ IF attempt[t] + 1 < max_retries[t]
       THEN /\ tstate' = [tstate EXCEPT ![t] = "fetch"]
            /\ UNCHANGED tresult
       ELSE /\ tstate' = [tstate EXCEPT ![t] = "returned"]
            /\ tresult' = [tresult EXCEPT ![t] = <<>>]
    /\ UNCHANGED <<targ, max_retries, html, last_error, terror, calls, fetches, sleeps, outcomes>>
    /\ UNCHANGED <<orchVars, dedupVars, stageVars, lateVars>>

ScrapeStep ==
    \/ \E t \in Tasks : Start(t)
    \/ \E t \in Tasks : Attempt(t)
    \/ \E t \in Tasks : Wake(t)

\* the max_retries arguments of a direct call: None, and the integers -1..MaxRetriesArg
RetryArgs == {<<>>} \cup {<<n>> : n \in (0 - 1)..MaxRetriesArg}

Windows == {<<Naive(2), Naive(4)>>, <<Aware(3), Naive(3)>>}

TaskInit ==
    /\ max_retries = [t \in Tasks |-> 0]
    /\ attempt = [t \in Tasks |-> 0]
    /\ html = [t \in Tasks |-> DocEmpty]
    /\ last_error = [t \in Tasks |-> "none"]
    /\ tresult = [t \in Tasks |-> <<>>]
    /\ terror = [t \in Tasks |-> NoError]
    /\ calls = [t \in Tasks |-> 0]
    /\ fetches = [t \in Tasks |-> 0]
    /\ sleeps = [t \in Tasks |-> <<>>]
    /\ outcomes = [t \in Tasks |-> <<>>]

DedupOff ==
    /\ dpc = "off"
    /\ posts = <<>>
    /\ similarity_threshold = <<85, 100>>
    /\ idx = 0
    /\ unique_posts = <<>>
    /\ seen_urls = {}
    /\ deduped = <<>>
    /\ pass = 1
    /\ original = <<>>

\* No scrape_source call and no scrape_all_sources call is in progress
ScrapeIdle ==
    /\ targ = [t \in Tasks |-> <<>>]
    /\ tstate = [t \in Tasks |-> "idle"]
    /\ pc = "off"
    /\ vc_sources = <<>>
    /\ max_workers = 1
    /\ submitted = 0
    /\ yielded = [t \in Tasks |-> 0]
    /\ all_posts = <<>>
    /\ errors = <<>>
    /\ result = <<>>
    /\ raisedErr = NoRaise

ScrapeOff == ScrapeIdle /\ start_date = Naive(2) /\ end_date = Naive(4)

NoDocument == [raised |-> "none", lines |-> <<>>]

FilterOff == fpc = "off" /\ fposts = <<>> /\ filtered = <<>>
ParseOff == ppc = "off" /\ phtml = <<>> /\ parsed = <<>>
AggregateOff == apc = "off" /\ aposts = <<>> /\ document = NoDocument
StagesOff == FilterOff /\ ParseOff /\ AggregateOff

EqOff == epc = "off" /\ operands = <<>> /\ verdicts = <<>>
NoReply == [kind |-> "none", blank |-> TRUE, words |-> 0, lines |-> 0, bullets |-> 0,
            paragraphs |-> 0, sentences |-> 0]
NoFailure == [type |-> "none", message |-> "", cause |-> "none"]
ScriptOff ==
    /\ gpc = "off"
    /\ gmax = 0
    /\ gattempt = 0
    /\ gcalls = 0
    /\ greplies = <<>>
    /\ gscript = NoReply
    /\ gerror = NoFailure
NoAudio == [kind |-> "none", size |-> 0, head |-> <<>>, message |-> <<>>, status |-> 0]
TtsOff ==
    /\ tts_pc = "off"
    /\ tts_script = "text"
    /\ tts_max = 0
    /\ tts_attempt = 0
    /\ tts_calls = 0
    /\ tts_log = <<>>
    /\ tts_audio = NoAudio
    /\ tts_error = NoFailure
\* a path: the directory, and k = 1 for the file name itself, k >= 2 for
\* <stem>_<k><suffix>
Path(dir, k) == [dir |-> dir, k |-> k]
NoPath == Path("none", 0)
CollisionOff ==
    /\ hc_pc = "off"
    /\ filepath = NoPath
    /\ counter = 0
    /\ hc_result = NoPath
    /\ hc_error = NoFailure
FileOff ==
    /\ save_pc = "off"
    /\ save_data = "bytes"
    /\ desktop_state = "ok"
    /\ cwd_writable = TRUE
    /\ write_fails = FALSE
    /\ files = [dir \in {"desktop", "cwd"} |-> {}]
    /\ written = {}
    /\ filename_bound = FALSE
    /\ CollisionOff
    /\ saved = NoPath
    /\ save_error = NoFailure
MainOff ==
    /\ main_pc = "off"
    /\ config_ok = TRUE
    /\ time_period = 0
    /\ confirmed = FALSE
    /\ stages = <<>>
    /\ collected = 0
    /\ unique = 0
    /\ caught = "none"
    /\ show_trace = FALSE
LateOff == EqOff /\ ScriptOff /\ TtsOff /\ FileOff /\ MainOff

\* A direct call scrape_source(SourceConfig(1), start_date, end_date, max_retries)
InitScrape ==
    /\ TaskInit
    /\ LateOff
    /\ DedupOff
    /\ StagesOff
    /\ \E a \in RetryArgs : targ = [t \in Tasks |-> IF t = 1 THEN a ELSE <<>>]
    /\ tstate = [t \in Tasks |-> IF t = 1 THEN "queued" ELSE "idle"]
    /\ pc = "direct"
    /\ vc_sources = <<>>
    /\ max_workers = 1
    /\ \E w \in Windows : start_date = w[1] /\ end_date = w[2]
    /\ submitted = 0
    /\ yielded = [t \in Tasks |-> 0]
    /\ all_posts = <<>>
    /\ errors = <<>>
    /\ result = <<>>
    /\ raisedErr = NoRaise

NextScrape == ScrapeStep

SpecScrape == InitScrape /\ [][NextScrape]_vars

----------------------------------------------------------------------------
\* aggregator.py: scrape_all_sources

\* str(e) of the ScraperError of lines 57-59 of scraper.py
StrOf(e) == <<"Failed to scrape", e.name, e.attempts, e.cause>>

\* a plausible slip: "no posts" alone raises, errors or not
ShouldRaiseWhenEmpty(errs, ps) == ps = <<>>

\* a plausible slip: the negation of all_posts is lost
ShouldRaiseInverted(errs, ps) == errs # <<>> /\ ps # <<>>

\* line 57: if errors and not all_posts
ShouldRaise(errs, ps) == errs # <<>> /\ ps = <<>>

\* lines 38-41: executor.submit(scrape_source, source, start_date, end_date) for the
\* next source of vc_sources; max_retries is left to its default, None
Submit ==
    /\ pc = "submit"
    /\ submitted < Len(vc_sources)
    /\ submitted' = submitted + 1
    /\ tstate' = [tstate EXCEPT ![submitted + 1] = "queued"]
    /\ targ' = [targ EXCEPT ![submitted + 1] = <<>>]
    /\ UNCHANGED <<max_retries, attempt, html, last_error, tresult, terror, calls,
                   fetches, sleeps, outcomes>>
    /\ UNCHANGED <<pc, vc_sources, max_workers, start_date, end_date, yielded,
                   all_posts, errors, result, raisedErr>>
    /\ UNCHANGED <<dedupVars, stageVars, lateVars>>

\* a plausible slip: all_posts = posts instead of all_posts.extend(posts)
CollectAssign(t) ==
    /\ pc = "submit"
    /\ submitted = Len(vc_sources)
    /\ t \in 1..submitted
    /\ Finished(t)
    /\ yielded[t] = 0
    /\ yielded' = [yielded EXCEPT ![t] = @ + 1]
    /\ IF tstate[t] = "returned"
       THEN /\ all_posts' = tresult[t]
            /\ UNCHANGED errors
       ELSE /\ errors' = Append(errors, <<vc_sources[t].name, StrOf(terror[t])>>)
            /\ UNCHANGED all_posts
    /\ UNCHANGED <<pc, vc_sources, max_workers, start_date, end_date, submitted,
                   result, raisedErr>>
    /\ UNCHANGED <<taskVars, dedupVars, stageVars, lateVars>>

\* a plausible slip: the posts are inserted at the front one by one
CollectInsertFront(t) ==
    /\ pc = "submit"
    /\ submitted = Len(vc_sources)
    /\ t \in 1..submitted
    /\ Finished(t)
    /\ yielded[t] = 0
    /\ yielded' = [yielded EXCEPT ![t] = @ + 1]
    /\ IF tstate[t] = "returned"
       THEN /\ all_posts' = [i \in 1..Len(tresult[t]) |-> tresult[t][Len(tresult[t]) + 1 - i]]
                                \o all_posts
            /\ UNCHANGED errors
       ELSE /\ errors' = Append(errors, <<vc_sources[t].name, StrOf(terror[t])>>)
            /\ UNCHANGED all_posts
    /\ UNCHANGED <<pc, vc_sources, max_workers, start_date, end_date, submitted,
                   result, raisedErr>>
    /\ UNCHANGED <<taskVars, dedupVars, stageVars, lateVars>>

\* lines 44-55: as_completed yields a finished future not yielded before, once every
\* source is submitted; its result is appended, or its exception recorded
Collect(t) ==
    /\ pc = "submit"
    /\ submitted = Len(vc_sources)
    /\ t \in 1..submitted
    /\ Finished(t)
    /\ yielded[t] = 0
    /\ yielded' = [yielded EXCEPT ![t] = @ + 1]
    /\ IF tstate[t] = "returned"
       THEN /\ all_posts' = all_posts \o tresult[t]
            /\ UNCHANGED errors
       ELSE /\ errors' = Append(errors, <<vc_sources[t].name, StrOf(terror[t])>>)
            /\ UNCHANGED all_posts
    /\ UNCHANGED <<pc, vc_sources, max_workers, start_date, end_date, submitted,
                   result, raisedErr>>
    /\ UNCHANGED <<taskVars, dedupVars, stageVars, lateVars>>

\* a plausible slip: the function returns from inside the loop, after the first future
FinishAfterFirst ==
    /\ pc = "submit"
    /\ submitted = Len(vc_sources)
    /\ submitted = 0 \/ \E t \in 1..submitted : yielded[t] > 0
    /\ IF errors # <<>> /\ all_posts = <<>>
       THEN /\ pc' = "raised"
            /\ raisedErr' = [type |-> "ScraperError", errors |-> errors]
            /\ UNCHANGED result
       ELSE /\ pc' = "returned"
            /\ result' = all_posts
            /\ UNCHANGED raisedErr
    /\ UNCHANGED <<vc_sources, max_workers, start_date, end_date, submitted, yielded,
                   all_posts, errors>>
    /\ UNCHANGED <<taskVars, dedupVars, stageVars, lateVars>>

\* a plausible slip: the function does not wait for the futures still running
FinishWithoutWaiting ==
    /\ pc = "submit"
    /\ submitted = Len(vc_sources)
    /\ \A t \in 1..submitted : Finished(t) => yielded[t] > 0
    /\ IF errors # <<>> /\ all_posts = <<>>
       THEN /\ pc' = "raised"
            /\ raisedErr' = [type |-> "ScraperError", errors |-> errors]
            /\ UNCHANGED result
       ELSE /\ pc' = "returned"
            /\ result' = all_posts
            /\ UNCHANGED raisedErr
    /\ UNCHANGED <<vc_sources, max_workers, start_date, end_date, submitted, yielded,
                   all_posts, errors>>
    /\ UNCHANGED <<taskVars, dedupVars, stageVars, lateVars>>

\* lines 56-62: the loop of as_completed ends when every future was yielded; the
\* with block is left and the function raises or returns
Finish ==
    /\ pc = "submit"
    /\ submitted = Len(vc_sources)
    /\ \A t \in 1..submitted : yielded[t] > 0
    /\ IF ShouldRaise(errors, all_posts)
       THEN /\ pc' = "raised"
            /\ raisedErr' = [type |-> "ScraperError", errors |-> errors]
            /\ UNCHANGED result
       ELSE /\ pc' = "returned"
            /\ result' = all_posts
            /\ UNCHANGED raisedErr
    /\ UNCHANGED <<vc_sources, max_workers, start_date, end_date, submitted, yielded,
                   all_posts, errors>>
    /\ UNCHANGED <<taskVars, dedupVars, stageVars, lateVars>>

\* scrape_all_sources(start_date, end_date, max_workers) entered: lines 30-36
Init ==
    /\ TaskInit
    /\ LateOff
    /\ DedupOff
    /\ StagesOff
    /\ targ = [t \in Tasks |-> <<>>]
    /\ tstate = [t \in Tasks |-> "idle"]
    /\ pc = "submit"
    /\ \E n \in 0..MaxSources : vc_sources = SourceList(n)
    /\ max_workers \in 1..MaxWorkers
    /\ \E w \in Windows : start_date = w[1] /\ end_date = w[2]
    /\ submitted = 0
    /\ yielded = [t \in Tasks |-> 0]
    /\ all_posts = <<>>
    /\ errors = <<>>
    /\ result = <<>>
    /\ raisedErr = NoRaise

Next ==
    \/ Submit
    \/ \E t \in Tasks : Start(t)
    \/ \E t \in Tasks : Attempt(t)
    \/ \E t \in Tasks : Wake(t)
    \/ \E t \in Tasks : Collect(t)
    \/ Finish

Spec == Init /\ [][Next]_vars

\* Every fetch returns or fails, every sleep ends, the pool runs a queued call when
\* a worker is free, and the calling thread goes on: each step that stays possible
\* is taken
Fairness ==
    /\ WF_vars(Submit)
    /\ \A t \in Tasks : WF_vars(Start(t)) /\ WF_vars(Attempt(t)) /\ WF_vars(Wake(t))
    /\ \A t \in Tasks : WF_vars(Collect(t))
    /\ WF_vars(Finish)

\* scrape_all_sources entered with one date window: the window does not bear on
\* which calls run or when they end
InitFair ==
    /\ Init
    /\ start_date = Naive(2)
    /\ end_date = Naive(4)

SpecFair == InitFair /\ [][Next]_vars /\ Fairness

----------------------------------------------------------------------------
\* aggregator.py: deduplicate_content and _is_similar_content

\* difflib.SequenceMatcher(None, a, b) on sequences shorter than 200 elements (no
\* autojunk). MatchLen: the length of the common run starting at a[i] and b[j] and
\* staying below ahi, bhi (half-open, as in find_longest_match).
RECURSIVE MatchLen(_, _, _, _, _, _)
MatchLen(a, b, i, j, ahi, bhi) ==
    IF i < ahi /\ j < bhi /\ a[i] = b[j] THEN 1 + MatchLen(a, b, i + 1, j + 1, ahi, bhi) ELSE 0

\* find_longest_match(alo, ahi, blo, bhi): <<i, j, k>>, the longest matching block;
\* of the longest, the one starting earliest in a, and of those, earliest in b
find_longest_match(a, b, alo, ahi, blo, bhi) ==
    LET cand == {<<i, j>> : i \in alo..(ahi - 1), j \in blo..(bhi - 1)}
        size(c) == MatchLen(a, b, c[1], c[2], ahi, bhi)
        best == CHOOSE c \in cand :
                   \A d \in cand :
                      \/ size(c) > size(d)
                      \/ /\ size(c) = size(d)
                         /\ \/ c[1] < d[1]
                            \/ c[1] = d[1] /\ c[2] <= d[2]
    IN IF cand = {} THEN <<alo, blo, 0>> ELSE <<best[1], best[2], size(best)>>

\* get_matching_blocks: the total size of the blocks found by splitting around the
\* longest match and recursing to its left and to its right
RECURSIVE MatchTotal(_, _, _, _, _, _)
MatchTotal(a, b, alo, ahi, blo, bhi) ==
    LET m == find_longest_match(a, b, alo, ahi, blo, bhi)
    IN IF m[3] = 0 THEN 0
       ELSE m[3]
            + (IF alo < m[1] /\ blo < m[2] THEN MatchTotal(a, b, alo, m[1], blo, m[2]) ELSE 0)
            + (IF m[1] + m[3] < ahi /\ m[2] + m[3] < bhi
               THEN MatchTotal(a, b, m[1] + m[3], ahi, m[2] + m[3], bhi) ELSE 0)

\* ratio() = 2.0 * matches / (len(a) + len(b)), and 1.0 when both are empty, as the
\* fraction <<numerator, denominator>>
ratio(a, b) ==
    IF Len(a) + Len(b) = 0 THEN <<1, 1>>
    ELSE <<2 * MatchTotal(a, b, 1, Len(a) + 1, 1, Len(b) + 1), Len(a) + Len(b)>>

\* a plausible slip: >= where the code has >
ExceedsOrEqual(r, threshold) == r[1] * threshold[2] >= threshold[1] * r[2]

\* r > threshold, both fractions with positive denominators
Exceeds(r, threshold) == r[1] * threshold[2] > threshold[1] * r[2]

\* content[:500]
Prefix(s) == SubSeq(s, 1, Min(Len(s), CONTENT_PREFIX))

\* lines 114-128
_is_similar_content(post1, post2, threshold) ==
    IF Exceeds(ratio(post1.title, post2.title), threshold) THEN TRUE
    ELSE IF post1.content # <<>> /\ post2.content # <<>>
         THEN Exceeds(ratio(Prefix(post1.content), Prefix(post2.content)), threshold)
         ELSE FALSE

\* a plausible slip: the exact-URL rule is lost
SeenUrlNever(post, seen) == FALSE

\* line 84: post.url and post.url in seen_urls
SeenUrl(post, seen) == post.url # <<>> /\ post.url \in seen

\* lines 88-92: the scan of unique_posts
IsDuplicate(post, kept, threshold) ==
    \E i \in DOMAIN kept : _is_similar_content(post, kept[i], threshold)

\* a plausible slip: the incoming record is compared with the record before it in
\* the input only, not with every kept record
DedupStepAdjacent ==
    /\ dpc = "loop"
    /\ idx < Len(posts)
    /\ idx' = idx + 1
    /\ LET post == posts[idx + 1]
       IN IF \/ SeenUrl(post, seen_urls)
             \/ idx >= 1 /\ _is_similar_content(post, posts[idx], similarity_threshold)
          THEN UNCHANGED <<unique_posts, seen_urls>>
          ELSE /\ unique_posts' = Append(unique_posts, post)
               /\ seen_urls' = IF post.url # <<>> THEN seen_urls \cup {post.url} ELSE seen_urls
    /\ UNCHANGED <<dpc, posts, similarity_threshold, deduped, pass, original>>
    /\ UNCHANGED <<taskVars, orchVars, stageVars, lateVars>>

\* a plausible slip: last-seen-wins, the incoming record replaces the kept record
\* it duplicates
DedupStepLastWins ==
    /\ dpc = "loop"
    /\ idx < Len(posts)
    /\ idx' = idx + 1
    /\ LET post == posts[idx + 1]
           dups == {i \in DOMAIN unique_posts :
                       _is_similar_content(post, unique_posts[i], similarity_threshold)}
       IN IF dups # {}
          THEN /\ unique_posts' = [unique_posts EXCEPT
                                      ![CHOOSE i \in dups : \A j \in dups : i <= j] = post]
               /\ UNCHANGED seen_urls
          ELSE IF SeenUrl(post, seen_urls)
          THEN UNCHANGED <<unique_posts, seen_urls>>
          ELSE /\ unique_posts' = Append(unique_posts, post)
               /\ seen_urls' = IF post.url # <<>> THEN seen_urls \cup {post.url} ELSE seen_urls
    /\ UNCHANGED <<dpc, posts, similarity_threshold, deduped, pass, original>>
    /\ UNCHANGED <<taskVars, orchVars, stageVars, lateVars>>

\* a plausible slip: the incoming record is compared with every earlier record of
\* the input, the discarded ones included
DedupStepAllEarlier ==
    /\ dpc = "loop"
    /\ idx < Len(posts)
    /\ idx' = idx + 1
    /\ LET post == posts[idx + 1]
       IN IF \/ SeenUrl(post, seen_urls)
             \/ IsDuplicate(post, SubSeq(posts, 1, idx), similarity_threshold)
          THEN UNCHANGED <<unique_posts, seen_urls>>
          ELSE /\ unique_posts' = Append(unique_posts, post)
               /\ seen_urls' = IF post.url # <<>> THEN seen_urls \cup {post.url} ELSE seen_urls
    /\ UNCHANGED <<dpc, posts, similarity_threshold, deduped, pass, original>>
    /\ UNCHANGED <<taskVars, orchVars, stageVars, lateVars>>

\* a plausible slip: the tests that the URL is non-empty (lines 84 and 96) are lost
DedupStepNoUrlGuard ==
    /\ dpc = "loop"
    /\ idx < Len(posts)
    /\ idx' = idx + 1
    /\ LET post == posts[idx + 1]
       IN IF post.url \in seen_urls \/ IsDuplicate(post, unique_posts, similarity_threshold)
          THEN UNCHANGED <<unique_posts, seen_urls>>
          ELSE /\ unique_posts' = Append(unique_posts, post)
               /\ seen_urls' = seen_urls \cup {post.url}
    /\ UNCHANGED <<dpc, posts, similarity_threshold, deduped, pass, original>>
    /\ UNCHANGED <<taskVars, orchVars, stageVars, lateVars>>

\* lines 82-97: one iteration of the loop over posts
DedupStep ==
    /\ dpc = "loop"
    /\ idx < Len(posts)
    /\ idx' = idx + 1
    /\ LET post == posts[idx + 1]
       IN IF SeenUrl(post, seen_urls) \/ IsDuplicate(post, unique_posts, similarity_threshold)
          THEN UNCHANGED <<unique_posts, seen_urls>>
          ELSE /\ unique_posts' = Append(unique_posts, post)
               /\ seen_urls' = IF post.url # <<>> THEN seen_urls \cup {post.url} ELSE seen_urls
    /\ UNCHANGED <<dpc, posts, similarity_threshold, deduped, pass, original>>
    /\ UNCHANGED <<taskVars, orchVars, stageVars, lateVars>>

\* lines 75-76 (an empty input returns [] at once) and lines 99-100
DedupReturn ==
    /\ dpc = "loop"
    /\ idx = Len(posts)
    /\ dpc' = "done"
    /\ deduped' = unique_posts
    /\ UNCHANGED <<posts, similarity_threshold, idx, unique_posts, seen_urls, pass, original>>
    /\ UNCHANGED <<taskVars, orchVars, stageVars, lateVars>>

\* deduplicate_content called again, on the list the first call returned, with the
\* same threshold
DedupAgain ==
    /\ dpc = "done"
    /\ pass = 1
    /\ pass' = 2
    /\ posts' = deduped
    /\ idx' = 0
    /\ unique_posts' = <<>>
    /\ seen_urls' = {}
    /\ dpc' = "loop"
    /\ UNCHANGED <<similarity_threshold, deduped, original>>
    /\ UNCHANGED <<taskVars, orchVars, stageVars, lateVars>>

\* the inputs of deduplicate_content
Titles == {T_ai, T_ai2, T_saas}
Contents == {NoText, T_ai}
Urls == {<<>>, <<"u1">>, <<"u2">>}
PostPool == {BlogPost(ti, Naive(3), co, "a16z", u) : ti \in Titles, co \in Contents, u \in Urls}
Thresholds == {<<1, 2>>, <<4, 5>>, <<85, 100>>}
PostLists == UNION {[1..n -> PostPool] : n \in 0..MaxPosts}

\* deduplicate_content(posts, similarity_threshold) entered
InitDedup ==
    /\ TaskInit
    /\ LateOff
    /\ targ = [t \in Tasks |-> <<>>]
    /\ tstate = [t \in Tasks |-> "idle"]
    /\ pc = "off"
    /\ vc_sources = <<>>
    /\ max_workers = 1
    /\ start_date = Naive(2)
    /\ end_date = Naive(4)
    /\ submitted = 0
    /\ yielded = [t \in Tasks |-> 0]
    /\ all_posts = <<>>
    /\ errors = <<>>
    /\ result = <<>>
    /\ raisedErr = NoRaise
    /\ dpc = "loop"
    /\ posts \in PostLists
    /\ similarity_threshold \in Thresholds
    /\ idx = 0
    /\ unique_posts = <<>>
    /\ seen_urls = {}
    /\ deduped = <<>>
    /\ pass = 1
    /\ original = posts
    /\ StagesOff

NextDedup == DedupStep \/ DedupReturn \/ DedupAgain

SpecDedup == InitDedup /\ [][NextDedup]_vars

----------------------------------------------------------------------------
\* aggregator.py: aggregate_posts

\* strftime('%Y-%m-%d'): the day an instant falls on
strftime(d) == d.t \div TicksPerDay

\* One element of the list `lines`: kind names the f-string that produced it, s is a
\* source name, t a text (title, body or URL), n and m are numbers (a count, or days)
Line(kind, s, t, n, m) == [kind |-> kind, s |-> s, t |-> t, n |-> n, m |-> m]

\* Comparing an offset-naive with an offset-aware datetime raises TypeError. A sort
\* has to compare, directly or through others, every two of its keys, so sorting
\* raises exactly when the list holds both kinds. (Aware datetimes of the model all
\* carry the same UTC offset, so they compare as their wall-clock values do.)
MixedTz(ps) == \E i, j \in DOMAIN ps : ps[i].date.tz # ps[j].date.tz

\* line 144: sorted(posts, key=lambda p: p.date, reverse=True), which is stable:
\* records with equal dates keep their input order
RECURSIVE sorted_desc(_)
sorted_desc(ps) ==
    IF ps = <<>> THEN <<>>
    ELSE LET init == sorted_desc(SubSeq(ps, 1, Len(ps) - 1))
             x == ps[Len(ps)]
             k == Cardinality({i \in DOMAIN init : init[i].date.t >= x.date.t})
         IN SubSeq(init, 1, k) \o <<x>> \o SubSeq(init, k + 1, Len(init))

\* lines 155-159: the keys of by_source, in insertion order
RECURSIVE by_source_keys(_)
by_source_keys(ps) ==
    IF ps = <<>> THEN <<>>
    ELSE LET init == by_source_keys(SubSeq(ps, 1, Len(ps) - 1))
             name == ps[Len(ps)].source
         IN IF \E i \in DOMAIN init : init[i] = name THEN init ELSE Append(init, name)

\* lines 155-159: by_source[name]
by_source(ps, name) == LET OfName(p) == p.source = name IN SelectSeq(ps, OfName)

\* lines 166-171
render_post(post) ==
    << Line("post", "", post.title, 0, 0), Line("date", "", <<>>, strftime(post.date), 0) >>
    \o (IF post.url # <<>> THEN << Line("url", "", post.url, 0, 0) >> ELSE <<>>)
    \o << Line("content", "", post.content, 0, 0), Line("end", "", <<>>, 0, 0) >>

RECURSIVE render_posts(_)
render_posts(ps) ==
    IF ps = <<>> THEN <<>> ELSE render_post(Head(ps)) \o render_posts(Tail(ps))

\* lines 162-171, for the sources `names`
RECURSIVE render_sections(_, _)
render_sections(names, sorted_posts) ==
    IF names = <<>> THEN <<>>
    ELSE LET source_posts == by_source(sorted_posts, Head(names))
         IN << Line("section", Head(names), <<>>, Len(source_posts), 0) >>
            \o render_posts(source_posts)
            \o render_sections(Tail(names), sorted_posts)

\* lines 140-173; now is datetime.now() at line 149
aggregate_posts(ps, now) ==
    IF ps = <<>> THEN [raised |-> "none", lines |-> <<>>]
    ELSE IF MixedTz(ps) THEN [raised |-> "TypeError", lines |-> <<>>]
    ELSE LET sorted_posts == sorted_desc(ps)
         IN [raised |-> "none",
             lines |-> << Line("heading", "", <<>>, 0, 0),
                          Line("generated", "", <<>>, now, 0),
                          Line("total", "", <<>>, Len(sorted_posts), 0),
                          Line("range", "", <<>>, strftime(sorted_posts[Len(sorted_posts)].date),
                               strftime(sorted_posts[1].date)),
                          Line("rule", "", <<>>, 0, 0) >>
                       \o render_sections(by_source_keys(sorted_posts), sorted_posts)]

\* the values datetime.now() takes
Clock == {10, 11}

\* aggregate_posts(aposts) called on its own
Aggregate ==
    /\ apc = "call"
    /\ \E now \in Clock : document' = aggregate_posts(aposts, now)
    /\ apc' = "done"
    /\ UNCHANGED <<aposts, filterVars, parseVars>>
    /\ UNCHANGED <<taskVars, orchVars, dedupVars, lateVars>>

\* the inputs of aggregate_posts: records of up to three sources, two of them on the
\* same day, one with tzinfo
AggDates == {Naive(1), Naive(2), Naive(3), Aware(3)}
AggSources == {SourceNames[i] : i \in 1..3}
AggPool == {BlogPost(T_ai, d, NoText, src, <<>>) : d \in AggDates, src \in AggSources}
              \cup {BlogPost(T_saas, d, T_ai, src, <<"u1">>) : d \in AggDates, src \in AggSources}
AggLists == UNION {[1..n -> AggPool] : n \in 0..MaxPosts}

InitAggregate ==
    /\ TaskInit
    /\ LateOff
    /\ ScrapeOff
    /\ DedupOff
    /\ FilterOff
    /\ ParseOff
    /\ apc = "call"
    /\ aposts \in AggLists
    /\ document = NoDocument

NextAggregate == Aggregate

SpecAggregate == InitAggregate /\ [][NextAggregate]_vars

----------------------------------------------------------------------------
\* cli.py: the pipeline after scrape_all_sources returned (lines 135-150)

\* line 140: fewer unique posts than this end the run with "Insufficient content"
MIN_POSTS == 3

\* lines 140-146: too few unique posts, the run ends without a document
StopInsufficient ==
    /\ apc = "wait"
    /\ dpc = "done"
    /\ Len(deduped) < MIN_POSTS
    /\ apc' = "stopped"
    /\ UNCHANGED <<aposts, document, filterVars, parseVars>>
    /\ UNCHANGED <<taskVars, orchVars, dedupVars, lateVars>>

\* line 150: markdown_content = aggregate_posts(unique_posts)
AggregateDeduped ==
    /\ apc = "wait"
    /\ dpc = "done"
    /\ Len(deduped) >= MIN_POSTS
    /\ aposts' = deduped
    /\ \E now \in Clock : document' = aggregate_posts(deduped, now)
    /\ apc' = "done"
    /\ UNCHANGED <<filterVars, parseVars>>
    /\ UNCHANGED <<taskVars, orchVars, dedupVars, lateVars>>

\* Pages with three posts inside the windows: one page dates them all without
\* tzinfo, the other dates one of them with tzinfo
DocNaive == << Article(TRUE, T_ai, "ok", Naive(3), FALSE, NoText, TRUE, <<"p1">>),
               Article(TRUE, T_ai2, "ok", Naive(3), FALSE, NoText, TRUE, <<"p2">>),
               Article(TRUE, T_saas, "ok", Naive(3), FALSE, NoText, TRUE, <<"p3">>) >>
DocThree == << Article(TRUE, T_ai, "ok", Naive(3), FALSE, NoText, TRUE, <<"p1">>),
               Article(TRUE, T_ai2, "ok", Aware(3), FALSE, NoText, TRUE, <<"p2">>),
               Article(TRUE, T_saas, "ok", Naive(3), FALSE, NoText, TRUE, <<"p3">>) >>
PipelineDocs == Docs \cup {DocNaive, DocThree}

\* The lists scrape_all_sources returns for n sources: per source, the records
\* scrape_source extracted from its page and filtered to the window w
RECURSIVE ScrapedLists(_, _)
ScrapedLists(n, w) ==
    IF n = 0 THEN {<<>>}
    ELSE {l \o AttemptResult(d, SourceConfig(n), w[1], w[2]) :
             l \in ScrapedLists(n - 1, w), d \in PipelineDocs}

\* line 137 entered: deduplicate_content(all_posts) with the default threshold
InitPipeline ==
    /\ TaskInit
    /\ LateOff
    /\ ScrapeIdle
    /\ FilterOff
    /\ ParseOff
    /\ \E w \in Windows :
          /\ start_date = w[1]
          /\ end_date = w[2]
          /\ \E n \in 0..MaxSources : posts \in ScrapedLists(n, w)
    /\ dpc = "loop"
    /\ similarity_threshold = <<85, 100>>
    /\ idx = 0
    /\ unique_posts = <<>>
    /\ seen_urls = {}
    /\ deduped = <<>>
    /\ pass = 1
    /\ original = posts
    /\ apc = "wait"
    /\ aposts = <<>>
    /\ document = NoDocument

NextPipeline == DedupStep \/ DedupReturn \/ StopInsufficient \/ AggregateDeduped

SpecPipeline == InitPipeline /\ [][NextPipeline]_vars

----------------------------------------------------------------------------
\* parse_blog_html on its own

\* a title element holding only whitespace
T_blank == <<" ">>

\* Article elements: two well-formed ones; one without a title element; one without
\* a date element; one whose date text dateutil rejects (ValueError); one whose date
\* makes dateutil raise another exception (OverflowError); and two whose title
\* element is there but holds only whitespace, or nothing
ParseArticles ==
    { Article(TRUE, T_ai, "ok", Naive(1), FALSE, NoText, FALSE, <<>>),
      Article(TRUE, T_padded, "ok", Aware(2), TRUE, T_saas, TRUE, <<"p1">>),
      Article(FALSE, NoText, "ok", Naive(3), TRUE, T_ai, TRUE, <<"p2">>),
      Article(TRUE, T_saas, "none", Naive(0), TRUE, T_ai, TRUE, <<"p3">>),
      Article(TRUE, T_saas, "bad", Naive(0), TRUE, T_ai, TRUE, <<"p4">>),
      Article(TRUE, T_saas, "overflow", Naive(0), TRUE, T_ai, TRUE, <<"p5">>),
      Article(TRUE, T_blank, "ok", Naive(4), TRUE, T_ai, TRUE, <<"p6">>),
      Article(TRUE, NoText, "ok", Naive(5), FALSE, NoText, FALSE, <<>>) }
ParseDocs == UNION {[1..n -> ParseArticles] : n \in 0..MaxPosts}

InitParse ==
    /\ TaskInit
    /\ LateOff
    /\ ScrapeOff
    /\ DedupOff
    /\ FilterOff
    /\ AggregateOff
    /\ ppc = "call"
    /\ phtml \in ParseDocs
    /\ parsed = <<>>

NextParse == Parse

SpecParse == InitParse /\ [][NextParse]_vars

----------------------------------------------------------------------------
\* filter_by_date on its own

\* instants before, at the ends of, inside and after the windows of FilterBounds,
\* each with and without tzinfo
FilterDates == {Naive(t) : t \in 1..5} \cup {Aware(t) : t \in 1..5}
FilterPool == {BlogPost(T_ai, d, NoText, "a16z", <<>>) : d \in FilterDates}
FilterBounds == {Naive(2), Aware(2), Naive(4), Aware(4)}
FilterLists == UNION {[1..n -> FilterPool] : n \in 0..MaxPosts}

InitFilter ==
    /\ TaskInit
    /\ LateOff
    /\ ScrapeIdle
    /\ start_date \in FilterBounds
    /\ end_date \in FilterBounds
    /\ DedupOff
    /\ ParseOff
    /\ AggregateOff
    /\ fpc = "call"
    /\ fposts \in FilterLists
    /\ filtered = <<>>

NextFilter == Filter

SpecFilter == InitFilter /\ [][NextFilter]_vars

----------------------------------------------------------------------------
\* deduplicate_content entered with a list of exactly two records, drawn from a pool
\* with more bodies than that of InitDedup
PairContents == {NoText, T_ai, T_ai2, T_saas}
PairPool == {BlogPost(ti, Naive(3), co, "a16z", u) : ti \in Titles, co \in PairContents, u \in Urls}

InitDedupPair ==
    /\ TaskInit
    /\ LateOff
    /\ ScrapeOff
    /\ StagesOff
    /\ dpc = "loop"
    /\ posts \in [1..2 -> PairPool]
    /\ similarity_threshold \in Thresholds
    /\ idx = 0
    /\ unique_posts = <<>>
    /\ seen_urls = {}
    /\ deduped = <<>>
    /\ pass = 1
    /\ original = posts

SpecDedupPair == InitDedupPair /\ [][NextDedup]_vars

----------------------------------------------------------------------------
\* models.py: BlogPost.__eq__ and BlogPost.__hash__

\* A Python value: cls is "BlogPost" for an instance of the dataclass, else the name
\* of another type; excerpt <<>> is None
Value(cls, title, date, content, source, url, excerpt) ==
    [cls |-> cls, title |-> title, date |-> date, content |-> content,
     source |-> source, url |-> url, excerpt |-> excerpt]

\* a plausible slip: the field-wise equality a dataclass generates by default
BlogPost_eq_fieldwise(self, other) ==
    IF other.cls # "BlogPost" THEN FALSE
    ELSE /\ self.title = other.title
         /\ self.date = other.date
         /\ self.content = other.content
         /\ self.source = other.source
         /\ self.url = other.url
         /\ self.excerpt = other.excerpt

\* lines 23-31: __eq__(self, other)
BlogPost_eq(self, other) ==
    IF other.cls # "BlogPost" THEN FALSE
    ELSE /\ self.title = other.title
         /\ self.source = other.source
         /\ self.url = other.url

\* lines 19-21: __hash__(self), the hash of the tuple (title, source, url), which is
\* a function of that tuple
BlogPost_hash(self) == <<self.title, self.source, self.url>>

\* x == y as Python evaluates it: the __eq__ of a BlogPost operand decides (a tuple
\* or str operand answers NotImplemented, and the reflected __eq__ is asked); two
\* operands of other types are not compared here
PyEquals(x, y) ==
    IF x.cls = "BlogPost" THEN BlogPost_eq(x, y)
    ELSE IF y.cls = "BlogPost" THEN BlogPost_eq(y, x)
    ELSE x = y

\* the operands: posts over two titles, sources and URLs, each with four settings of
\* the other fields, and two values that are no BlogPost
OtherFields == { <<Naive(1), NoText, <<>>>>, <<Naive(2), NoText, <<>>>>,
                 <<Naive(1), T_ai, <<>>>>, <<Naive(1), NoText, T_ai>> }
EqPosts == {Value("BlogPost", ti, o[1], o[2], src, u, o[3]) :
               ti \in {T_ai, T_saas}, src \in {SourceNames[1], SourceNames[2]},
               u \in {<<>>, <<"u1">>}, o \in OtherFields}
EqOthers == { Value("tuple", T_ai, Naive(1), NoText, SourceNames[1], <<>>, <<>>),
              Value("str", T_ai, Naive(1), NoText, SourceNames[1], <<>>, <<>>) }
EqValues == EqPosts \cup EqOthers

\* every comparison among the three operands, and the hash of each BlogPost operand
Compare ==
    /\ epc = "call"
    /\ verdicts' = [eq |-> [i \in 1..3 |-> [j \in 1..3 |-> PyEquals(operands[i], operands[j])]],
                    hash |-> [i \in 1..3 |-> IF operands[i].cls = "BlogPost"
                                             THEN BlogPost_hash(operands[i]) ELSE <<>>]]
    /\ epc' = "done"
    /\ UNCHANGED operands
    /\ UNCHANGED <<taskVars, orchVars, dedupVars, stageVars, scriptVars, ttsVars, fileVars,
                   mainVars>>

InitEq ==
    /\ TaskInit
    /\ ScrapeOff
    /\ DedupOff
    /\ StagesOff
    /\ ScriptOff
    /\ TtsOff
    /\ FileOff
    /\ MainOff
    /\ epc = "call"
    /\ operands \in [1..3 -> EqValues]
    /\ verdicts = <<>>

NextEq == Compare

SpecEq == InitEq /\ [][NextEq]_vars

----------------------------------------------------------------------------
\* script_generator.py: generate_script and validate_script

\* What one client.messages.create call gives: kind "error" when the call (or
\* reading response.content[0].text) raises, else kind "text" with the measures
\* validate_script takes of the script: blank (empty or whitespace only), words
\* (len(script.split())), lines (split on newline), bullets (lines starting with a
\* list marker), paragraphs (non-blank blocks between blank lines), sentences
\* (occurrences of ". ")
Reply(kind, blank, words, lines, bullets, paragraphs, sentences) ==
    [kind |-> kind, blank |-> blank, words |-> words, lines |-> lines,
     bullets |-> bullets, paragraphs |-> paragraphs, sentences |-> sentences]

\* lines 132-163
validate_script(script) ==
    IF script.blank THEN FALSE
    ELSE IF script.words < SCRIPT_MIN_WORDS THEN FALSE
    ELSE IF 10 * script.bullets > 3 * script.lines THEN FALSE
    ELSE IF script.paragraphs < 3 THEN FALSE
    ELSE IF 30 * script.sentences < script.words THEN FALSE
    ELSE TRUE

\* the attempt produced a script that passes validation (lines 46-56)
Accepted(r) == r.kind = "text" /\ validate_script(r)

\* the replies of the API: an error; an empty script; scripts failing one check each
\* (too short, too many bullet lines, too few paragraphs, too few sentences); and
\* two scripts that pass, one of them exactly at every limit
ScriptReplies ==
    { Reply("error", TRUE, 0, 0, 0, 0, 0),
      Reply("text", TRUE, 0, 1, 0, 0, 0),
      Reply("text", FALSE, 99, 10, 0, 3, 4),
      Reply("text", FALSE, 120, 10, 4, 3, 4),
      Reply("text", FALSE, 120, 10, 0, 2, 4),
      Reply("text", FALSE, 120, 10, 0, 3, 3),
      Reply("text", FALSE, 100, 10, 3, 3, 4),
      Reply("text", FALSE, 2000, 40, 0, 12, 150) }

\* ScriptGenerationError of lines 73-75, chained to what the last attempt raised:
\* the API error, or the "quality insufficient" error of lines 64-66
GenerationFailed(r) ==
    [type |-> "ScriptGenerationError", message |-> "Failed to generate script",
     cause |-> IF r.kind = "error" THEN "API error" ELSE "Script quality insufficient"]

\* a plausible slip: only a rejected script is retried, an API error raises at once
GenAttemptNoRetryOnError ==
    /\ gpc = "loop"
    /\ gattempt < gmax
    /\ \E r \in ScriptReplies :
          /\ gcalls' = gcalls + 1
          /\ greplies' = Append(greplies, r)
          /\ IF Accepted(r)
             THEN /\ gpc' = "returned"
                  /\ gscript' = r
                  /\ UNCHANGED <<gattempt, gerror>>
             ELSE IF r.kind = "text" /\ gattempt < gmax - 1
             THEN /\ gattempt' = gattempt + 1
                  /\ UNCHANGED <<gpc, gscript, gerror>>
             ELSE /\ gpc' = "raised"
                  /\ gerror' = GenerationFailed(r)
                  /\ UNCHANGED <<gattempt, gscript>>
    /\ UNCHANGED gmax
    /\ UNCHANGED <<taskVars, orchVars, dedupVars, stageVars, eqVars, ttsVars, fileVars,
                   mainVars>>

\* lines 41-75: one iteration of the loop: one API call, then return, continue or raise
GenAttempt ==
    /\ gpc = "loop"
    /\ gattempt < gmax
    /\ \E r \in ScriptReplies :
          /\ gcalls' = gcalls + 1
          /\ greplies' = Append(greplies, r)
          /\ IF Accepted(r)
             THEN /\ gpc' = "returned"
                  /\ gscript' = r
                  /\ UNCHANGED <<gattempt, gerror>>
             ELSE IF gattempt < gmax - 1
             THEN /\ gattempt' = gattempt + 1
                  /\ UNCHANGED <<gpc, gscript, gerror>>
             ELSE /\ gpc' = "raised"
                  /\ gerror' = GenerationFailed(r)
                  /\ UNCHANGED <<gattempt, gscript>>
    /\ UNCHANGED gmax
    /\ UNCHANGED <<taskVars, orchVars, dedupVars, stageVars, eqVars, ttsVars, fileVars,
                   mainVars>>

\* line 77: range(max_retries) was empty
GenFallThrough ==
    /\ gpc = "loop"
    /\ gattempt >= gmax
    /\ gpc' = "raised"
    /\ gerror' = [type |-> "ScriptGenerationError",
                  message |-> "Script generation failed unexpectedly", cause |-> "none"]
    /\ UNCHANGED <<gmax, gattempt, gcalls, greplies, gscript>>
    /\ UNCHANGED <<taskVars, orchVars, dedupVars, stageVars, eqVars, ttsVars, fileVars,
                   mainVars>>

\* generate_script(content, topic, timeframe_days, max_retries) entered, the client
\* constructed (line 39)
InitScript ==
    /\ TaskInit
    /\ ScrapeOff
    /\ DedupOff
    /\ StagesOff
    /\ EqOff
    /\ TtsOff
    /\ FileOff
    /\ MainOff
    /\ gpc = "loop"
    /\ gmax \in 0..MaxRetriesArg
    /\ gattempt = 0
    /\ gcalls = 0
    /\ greplies = <<>>
    /\ gscript = NoReply
    /\ gerror = NoFailure

NextScript == GenAttempt \/ GenFallThrough

SpecScript == InitScript /\ [][NextScript]_vars

----------------------------------------------------------------------------
\* tts.py: text_to_speech and validate_audio

\* What one attempt gets from the API: kind "audio" with the size of the joined
\* chunks and their first three bytes, or kind "error" with str(e) and the HTTP
\* status of the failed request (429: rate limited)
Outcome(kind, size, head, message, status) ==
    [kind |-> kind, size |-> size, head |-> head, message |-> message, status |-> status]

MsgValidationFailed ==
    << "G", "e", "n", "e", "r", "a", "t", "e", "d", " ", "a", "u", "d", "i",
       "o", " ", "f", "a", "i", "l", "e", "d", " ", "v", "a", "l", "i", "d",
       "a", "t", "i", "o", "n" >>
MsgRateLimit ==
    << "R", "a", "t", "e", " ", "l", "i", "m", "i", "t", " ", "e", "x", "c",
       "e", "e", "d", "e", "d" >>
MsgApiError ==
    << "A", "P", "I", " ", "E", "r", "r", "o", "r" >>

\* str.lower() on the letters that occur in the messages
LowerChar(c) ==
    CASE c = "A" -> "a" [] c = "E" -> "e" [] c = "G" -> "g" [] c = "I" -> "i"
      [] c = "P" -> "p" [] c = "R" -> "r" [] OTHER -> c
lower(s) == [i \in DOMAIN s |-> LowerChar(s[i])]

\* sub in s
Contains(s, sub) ==
    \E i \in 1..(Len(s) - Len(sub) + 1) : SubSeq(s, i, i + Len(sub) - 1) = sub

\* line 83: "rate" in str(e).lower() or "limit" in str(e).lower()
LooksRateLimited(message) ==
    \/ Contains(lower(message), <<"r", "a", "t", "e">>)
    \/ Contains(lower(message), <<"l", "i", "m", "i", "t">>)

\* lines 108-124; for a byte b, b & 0xE0 == 0xE0 says b >= 0xE0 = 224
validate_audio(audio_data) ==
    IF audio_data.size = 0 THEN FALSE
    ELSE IF audio_data.size < AUDIO_MIN_BYTES THEN FALSE
    ELSE IF ~(\/ audio_data.head = <<73, 68, 51>>
              \/ audio_data.head[1] = 255 /\ audio_data.head[2] >= 224) THEN FALSE
    ELSE TRUE

\* line 76: raise TTSError("Generated audio failed validation")
ValidationError == Outcome("error", 0, <<>>, MsgValidationFailed, 0)

\* the exception the except clause of line 78 binds to e after outcome o
CaughtAfter(o) == IF o.kind = "audio" THEN ValidationError ELSE o

RECURSIVE Pow2(_)
Pow2(n) == IF n = 0 THEN 1 ELSE 2 * Pow2(n - 1)

\* TTSError of lines 92-94, chained to last_error
TtsFailed(e) ==
    [type |-> "TTSError", message |-> "Failed to generate audio", cause |-> e.message]

\* the outcomes of one attempt: audio with an ID3 tag; the smallest audio with an
\* MPEG frame sync; no audio; audio one byte too small; audio with another header;
\* a rate-limit error; another API error
TtsOutcomes ==
    { Outcome("audio", 2048, <<73, 68, 51>>, <<>>, 200),
      Outcome("audio", 1024, <<255, 251, 144>>, <<>>, 200),
      Outcome("audio", 0, <<>>, <<>>, 200),
      Outcome("audio", 1023, <<73, 68, 51>>, <<>>, 200),
      Outcome("audio", 2048, <<255, 31, 0>>, <<>>, 200),
      Outcome("error", 0, <<>>, MsgRateLimit, 429),
      Outcome("error", 0, <<>>, MsgApiError, 500) }

Attempted(o, slept) == [outcome |-> o, slept |-> slept]

\* lines 38-44: the empty-script check
TtsEnter ==
    /\ tts_pc = "entry"
    /\ IF tts_script = "blank"
       THEN /\ tts_pc' = "raised"
            /\ tts_error' = [type |-> "TTSError",
                             message |-> "Cannot convert empty script to audio",
                             cause |-> <<>>]
       ELSE /\ tts_pc' = "loop"
            /\ UNCHANGED tts_error
    /\ UNCHANGED <<tts_script, tts_max, tts_attempt, tts_calls, tts_log, tts_audio>>
    /\ UNCHANGED <<taskVars, orchVars, dedupVars, stageVars, eqVars, scriptVars, fileVars,
                   mainVars>>

\* a plausible slip: the audio is returned without validate_audio
TtsAttemptUnvalidated ==
    /\ tts_pc = "loop"
    /\ tts_attempt < tts_max
    /\ \E o \in TtsOutcomes :
          /\ tts_calls' = tts_calls + 1
          /\ IF o.kind = "audio"
             THEN /\ tts_pc' = "returned"
                  /\ tts_audio' = o
                  /\ tts_log' = Append(tts_log, Attempted(o, 0))
                  /\ UNCHANGED <<tts_attempt, tts_error>>
             ELSE IF LooksRateLimited(CaughtAfter(o).message) /\ tts_attempt < tts_max - 1
             THEN /\ tts_log' = Append(tts_log, Attempted(o, RETRY_DELAY * Pow2(tts_attempt)))
                  /\ tts_attempt' = tts_attempt + 1
                  /\ UNCHANGED <<tts_pc, tts_audio, tts_error>>
             ELSE IF tts_attempt >= tts_max - 1
             THEN /\ tts_pc' = "raised"
                  /\ tts_error' = TtsFailed(CaughtAfter(o))
                  /\ tts_log' = Append(tts_log, Attempted(o, 0))
                  /\ UNCHANGED <<tts_attempt, tts_audio>>
             ELSE /\ tts_log' = Append(tts_log, Attempted(o, 0))
                  /\ tts_attempt' = tts_attempt + 1
                  /\ UNCHANGED <<tts_pc, tts_audio, tts_error>>
    /\ UNCHANGED <<tts_script, tts_max>>
    /\ UNCHANGED <<taskVars, orchVars, dedupVars, stageVars, eqVars, scriptVars, fileVars,
                   mainVars>>

\* lines 46-94: one iteration of the loop: one conversion call, then return; or
\* sleep and continue (lines 83-88); or raise (lines 91-94); or, after an error that
\* does not look rate limited with attempts left, go on to the next iteration at once
TtsAttempt ==
    /\ tts_pc = "loop"
    /\ tts_attempt < tts_max
    /\ \E o \in TtsOutcomes :
          /\ tts_calls' = tts_calls + 1
          /\ IF o.kind = "audio" /\ validate_audio(o)
             THEN /\ tts_pc' = "returned"
                  /\ tts_audio' = o
                  /\ tts_log' = Append(tts_log, Attempted(o, 0))
                  /\ UNCHANGED <<tts_attempt, tts_error>>
             ELSE IF LooksRateLimited(CaughtAfter(o).message) /\ tts_attempt < tts_max - 1
             THEN /\ tts_log' = Append(tts_log, Attempted(o, RETRY_DELAY * Pow2(tts_attempt)))
                  /\ tts_attempt' = tts_attempt + 1
                  /\ UNCHANGED <<tts_pc, tts_audio, tts_error>>
             ELSE IF tts_attempt >= tts_max - 1
             THEN /\ tts_pc' = "raised"
                  /\ tts_error' = TtsFailed(CaughtAfter(o))
                  /\ tts_log' = Append(tts_log, Attempted(o, 0))
                  /\ UNCHANGED <<tts_attempt, tts_audio>>
             ELSE /\ tts_log' = Append(tts_log, Attempted(o, 0))
                  /\ tts_attempt' = tts_attempt + 1
                  /\ UNCHANGED <<tts_pc, tts_audio, tts_error>>
    /\ UNCHANGED <<tts_script, tts_max>>
    /\ UNCHANGED <<taskVars, orchVars, dedupVars, stageVars, eqVars, scriptVars, fileVars,
                   mainVars>>

\* line 96: range(max_retries) was empty
TtsFallThrough ==
    /\ tts_pc = "loop"
    /\ tts_attempt >= tts_max
    /\ tts_pc' = "raised"
    /\ tts_error' = [type |-> "TTSError", message |-> "TTS conversion failed unexpectedly",
                     cause |-> <<>>]
    /\ UNCHANGED <<tts_script, tts_max, tts_attempt, tts_calls, tts_log, tts_audio>>
    /\ UNCHANGED <<taskVars, orchVars, dedupVars, stageVars, eqVars, scriptVars, fileVars,
                   mainVars>>

\* text_to_speech(script, voice, max_retries) entered
InitTts ==
    /\ TaskInit
    /\ ScrapeOff
    /\ DedupOff
    /\ StagesOff
    /\ EqOff
    /\ ScriptOff
    /\ FileOff
    /\ MainOff
    /\ tts_pc = "entry"
    /\ tts_script \in {"blank", "text"}
    /\ tts_max \in 0..MaxRetriesArg
    /\ tts_attempt = 0
    /\ tts_calls = 0
    /\ tts_log = <<>>
    /\ tts_audio = NoAudio
    /\ tts_error = NoFailure

NextTts == TtsEnter \/ TtsAttempt \/ TtsFallThrough

SpecTts == InitTts /\ [][NextTts]_vars

----------------------------------------------------------------------------
\* file_handler.py: handle_collision and save_audio

\* Path.exists(): the file was there at the call, or save_audio wrote it since
exists(p) == p.k \in files[p.dir] \/ p \in written

FileHandlerError(message) == [type |-> "FileHandlerError", message |-> message, cause |-> "none"]

\* lines 130-138: the given path is free, or the search starts at counter 2
HcCheck ==
    /\ hc_pc = "called"
    /\ IF ~exists(filepath)
       THEN /\ hc_pc' = "returned"
            /\ hc_result' = filepath
            /\ UNCHANGED counter
       ELSE /\ hc_pc' = "loop"
            /\ counter' = 2
            /\ UNCHANGED hc_result
    /\ UNCHANGED <<filepath, hc_error>>
    /\ UNCHANGED <<save_pc, save_data, desktop_state, cwd_writable, write_fails, files,
                   written, filename_bound, saved, save_error>>
    /\ UNCHANGED <<taskVars, orchVars, dedupVars, stageVars, eqVars, scriptVars, ttsVars,
                   mainVars>>

\* a plausible slip: the safety limit is tested before the counter is advanced
HcProbeLimitEarly ==
    /\ hc_pc = "loop"
    /\ IF ~exists(Path(filepath.dir, counter))
       THEN /\ hc_pc' = "returned"
            /\ hc_result' = Path(filepath.dir, counter)
            /\ UNCHANGED <<counter, hc_error>>
       ELSE /\ counter' = counter + 1
            /\ IF counter + 1 >= COLLISION_LIMIT
               THEN /\ hc_pc' = "raised"
                    /\ hc_error' = FileHandlerError("Too many filename collisions")
               ELSE UNCHANGED <<hc_pc, hc_error>>
            /\ UNCHANGED hc_result
    /\ UNCHANGED filepath
    /\ UNCHANGED <<save_pc, save_data, desktop_state, cwd_writable, write_fails, files,
                   written, filename_bound, saved, save_error>>
    /\ UNCHANGED <<taskVars, orchVars, dedupVars, stageVars, eqVars, scriptVars, ttsVars,
                   mainVars>>

\* lines 139-148: one iteration of the while loop
HcProbe ==
    /\ hc_pc = "loop"
    /\ IF ~exists(Path(filepath.dir, counter))
       THEN /\ hc_pc' = "returned"
            /\ hc_result' = Path(filepath.dir, counter)
            /\ UNCHANGED <<counter, hc_error>>
       ELSE /\ counter' = counter + 1
            /\ IF counter + 1 > COLLISION_LIMIT
               THEN /\ hc_pc' = "raised"
                    /\ hc_error' = FileHandlerError("Too many filename collisions")
               ELSE UNCHANGED <<hc_pc, hc_error>>
            /\ UNCHANGED hc_result
    /\ UNCHANGED filepath
    /\ UNCHANGED <<save_pc, save_data, desktop_state, cwd_writable, write_fails, files,
                   written, filename_bound, saved, save_error>>
    /\ UNCHANGED <<taskVars, orchVars, dedupVars, stageVars, eqVars, scriptVars, ttsVars,
                   mainVars>>

\* the names a directory may hold: any of the first MaxFiles, or every name up to
\* one below, at, or one above the safety limit
LongRuns == {1..(COLLISION_LIMIT - 1), 1..COLLISION_LIMIT, 1..(COLLISION_LIMIT + 1)}
DirContents == SUBSET (1..MaxFiles) \cup LongRuns

\* handle_collision(filepath) called on its own
InitCollision ==
    /\ TaskInit
    /\ ScrapeOff
    /\ DedupOff
    /\ StagesOff
    /\ EqOff
    /\ ScriptOff
    /\ TtsOff
    /\ MainOff
    /\ save_pc = "off"
    /\ save_data = "bytes"
    /\ desktop_state = "ok"
    /\ cwd_writable = TRUE
    /\ write_fails = FALSE
    /\ \E taken \in DirContents : files = [dir \in {"desktop", "cwd"} |->
                                             IF dir = "desktop" THEN taken ELSE {}]
    /\ written = {}
    /\ filename_bound = FALSE
    /\ hc_pc = "called"
    /\ filepath = Path("desktop", 1)
    /\ counter = 0
    /\ hc_result = NoPath
    /\ hc_error = NoFailure
    /\ saved = NoPath
    /\ save_error = NoFailure

NextCollision == HcCheck \/ HcProbe

SpecCollision == InitCollision /\ [][NextCollision]_vars

\* lines 32-41: the empty-data check, get_desktop_path (lines 73-93), the file name,
\* and the call of handle_collision on the desktop path; an exception of
\* get_desktop_path leaves the local filename unassigned
SaveEnter ==
    /\ save_pc = "entry"
    /\ IF save_data = "empty"
       THEN /\ save_pc' = "raised"
            /\ save_error' = FileHandlerError("Cannot save empty audio data")
            /\ UNCHANGED <<filename_bound, hc_pc, filepath>>
       ELSE IF desktop_state # "ok"
       THEN /\ save_pc' = "fallback"
            /\ UNCHANGED <<save_error, filename_bound, hc_pc, filepath>>
       ELSE /\ save_pc' = "desktop"
            /\ filename_bound' = TRUE
            /\ filepath' = Path("desktop", 1)
            /\ hc_pc' = "called"
            /\ UNCHANGED save_error
    /\ UNCHANGED <<save_data, desktop_state, cwd_writable, write_fails, files, written,
                   counter, hc_result, hc_error, saved>>
    /\ UNCHANGED <<taskVars, orchVars, dedupVars, stageVars, eqVars, scriptVars, ttsVars,
                   mainVars>>

\* lines 41-49: after handle_collision, the write to the desktop
SaveDesktopWrite ==
    /\ save_pc = "desktop"
    /\ hc_pc \in {"returned", "raised"}
    /\ IF hc_pc = "raised" \/ write_fails
       THEN /\ save_pc' = "fallback"
            /\ UNCHANGED <<written, saved>>
       ELSE /\ save_pc' = "returned"
            /\ written' = written \cup {hc_result}
            /\ saved' = hc_result
    /\ UNCHANGED <<save_data, desktop_state, cwd_writable, write_fails, files,
                   filename_bound, hc_pc, filepath, counter, hc_result, hc_error,
                   save_error>>
    /\ UNCHANGED <<taskVars, orchVars, dedupVars, stageVars, eqVars, scriptVars, ttsVars,
                   mainVars>>

\* lines 51-54: the fallback reads the local filename (an UnboundLocalError when it
\* was never assigned, caught at line 58) and calls handle_collision on the path in
\* the current directory
SaveFallback ==
    /\ save_pc = "fallback"
    /\ IF ~filename_bound
       THEN /\ save_pc' = "raised"
            /\ save_error' = FileHandlerError("Failed to save audio file")
            /\ UNCHANGED <<hc_pc, filepath, counter, hc_result, hc_error>>
       ELSE /\ save_pc' = "fallback_collision"
            /\ hc_pc' = "called"
            /\ filepath' = Path("cwd", 1)
            /\ counter' = 0
            /\ hc_result' = NoPath
            /\ hc_error' = NoFailure
            /\ UNCHANGED save_error
    /\ UNCHANGED <<save_data, desktop_state, cwd_writable, write_fails, files, written,
                   filename_bound, saved>>
    /\ UNCHANGED <<taskVars, orchVars, dedupVars, stageVars, eqVars, scriptVars, ttsVars,
                   mainVars>>

\* lines 54-61: after handle_collision, the write to the current directory
SaveFallbackWrite ==
    /\ save_pc = "fallback_collision"
    /\ hc_pc \in {"returned", "raised"}
    /\ IF hc_pc = "raised" \/ ~cwd_writable
       THEN /\ save_pc' = "raised"
            /\ save_error' = FileHandlerError("Failed to save audio file")
            /\ UNCHANGED <<written, saved>>
       ELSE /\ save_pc' = "returned"
            /\ written' = written \cup {hc_result}
            /\ saved' = hc_result
            /\ UNCHANGED save_error
    /\ UNCHANGED <<save_data, desktop_state, cwd_writable, write_fails, files,
                   filename_bound, hc_pc, filepath, counter, hc_result, hc_error>>
    /\ UNCHANGED <<taskVars, orchVars, dedupVars, stageVars, eqVars, scriptVars, ttsVars,
                   mainVars>>

\* the directories save_audio may find
SaveDirContents == SUBSET (1..MaxFiles) \cup {1..COLLISION_LIMIT}

\* save_audio(audio_data, metadata) entered
InitSave ==
    /\ TaskInit
    /\ ScrapeOff
    /\ DedupOff
    /\ StagesOff
    /\ EqOff
    /\ ScriptOff
    /\ TtsOff
    /\ MainOff
    /\ save_pc = "entry"
    /\ save_data \in {"empty", "bytes"}
    /\ desktop_state \in {"missing", "not_dir", "not_writable", "ok"}
    /\ cwd_writable \in BOOLEAN
    /\ write_fails \in BOOLEAN
    /\ \E d \in SaveDirContents, c \in SaveDirContents :
          files = [dir \in {"desktop", "cwd"} |-> IF dir = "desktop" THEN d ELSE c]
    /\ written = {}
    /\ filename_bound = FALSE
    /\ CollisionOff
    /\ saved = NoPath
    /\ save_error = NoFailure

NextSave == SaveEnter \/ HcCheck \/ HcProbe \/ SaveDesktopWrite \/ SaveFallback
            \/ SaveFallbackWrite

SpecSave == InitSave /\ [][NextSave]_vars

----------------------------------------------------------------------------
\* The records of one source from filter_by_date to aggregate_posts

\* scraper.py line 49 and cli.py lines 128-137: the list filter_by_date returned is
\* what scrape_source returns, scrape_all_sources extends all_posts with it, and
\* deduplicate_content(all_posts) is entered
DedupFiltered ==
    /\ fpc = "done"
    /\ dpc = "off"
    /\ apc = "wait"
    /\ dpc' = "loop"
    /\ posts' = filtered
    /\ original' = filtered
    /\ idx' = 0
    /\ unique_posts' = <<>>
    /\ seen_urls' = {}
    /\ UNCHANGED <<similarity_threshold, deduped, pass>>
    /\ UNCHANGED <<taskVars, orchVars, stageVars, lateVars>>

\* records of one source: three titles, dates before and inside the windows, two
\* of them with tzinfo
RecordDates == {Naive(1), Naive(3), Aware(3), Aware(4)}
RecordPool == {BlogPost(ti, d, NoText, "a16z", <<>>) : ti \in Titles, d \in RecordDates}
RecordLists == UNION {[1..n -> RecordPool] : n \in 0..MaxPosts}

\* filter_by_date(posts, start_date, end_date) entered inside scrape_source
InitRecords ==
    /\ TaskInit
    /\ LateOff
    /\ ScrapeIdle
    /\ \E w \in Windows : start_date = w[1] /\ end_date = w[2]
    /\ DedupOff
    /\ ParseOff
    /\ fpc = "call"
    /\ fposts \in RecordLists
    /\ filtered = <<>>
    /\ apc = "wait"
    /\ aposts = <<>>
    /\ document = NoDocument

NextRecords ==
    Filter \/ DedupFiltered \/ DedupStep \/ DedupReturn \/ StopInsufficient
    \/ AggregateDeduped

SpecRecords == InitRecords /\ [][NextRecords]_vars

----------------------------------------------------------------------------
\* cli.py: main

\* one call of a stage function from main, and how it ended
Called(name, outcome) == [stage |-> name, outcome |-> outcome]
Outcomes == {"returned", "raised"}

\* the days of TimePeriod
TimePeriods == {7, 14, 21}

\* a plausible slip: the run stops only when no post is left
InsufficientWhenEmpty(n) == n = 0

\* line 140: len(unique_posts) < 3
Insufficient(n) == n < MIN_POSTS

\* lines 95-107: Config.validate() raises ValueError when an API key is missing
MainValidate ==
    /\ main_pc = "validate"
    /\ main_pc' = IF config_ok THEN "prompt" ELSE "returned"
    /\ UNCHANGED <<config_ok, time_period, confirmed, stages, collected, unique, caught,
                   show_trace>>
    /\ UNCHANGED <<taskVars, orchVars, dedupVars, stageVars, eqVars, scriptVars, ttsVars,
                   fileVars>>

\* lines 109-117: the prompts for the time period and the topic
MainPrompt ==
    /\ main_pc = "prompt"
    /\ time_period' \in TimePeriods
    /\ main_pc' = "confirm"
    /\ UNCHANGED <<config_ok, confirmed, stages, collected, unique, caught, show_trace>>
    /\ UNCHANGED <<taskVars, orchVars, dedupVars, stageVars, eqVars, scriptVars, ttsVars,
                   fileVars>>

\* lines 119-124: "Start generating podcast?"
MainConfirm ==
    /\ main_pc = "confirm"
    /\ confirmed' \in BOOLEAN
    /\ main_pc' = IF confirmed' THEN "scrape_all_sources" ELSE "returned"
    /\ UNCHANGED <<config_ok, time_period, stages, collected, unique, caught, show_trace>>
    /\ UNCHANGED <<taskVars, orchVars, dedupVars, stageVars, eqVars, scriptVars, ttsVars,
                   fileVars>>

\* a stage function is called at main_pc = name; when it returns main goes on at
\* next, when it raises the except clause of line 177 is entered
RunStage(name, next) ==
    /\ main_pc = name
    /\ \E o \in Outcomes :
          /\ stages' = Append(stages, Called(name, o))
          /\ IF o = "returned"
             THEN main_pc' = next /\ UNCHANGED caught
             ELSE main_pc' = "except" /\ caught' = name

\* lines 128-133
MainScrape ==
    /\ RunStage("scrape_all_sources", "deduplicate_content")
    /\ IF main_pc' = "except" THEN UNCHANGED collected ELSE collected' \in 0..MaxPosts
    /\ UNCHANGED <<config_ok, time_period, confirmed, unique, show_trace>>
    /\ UNCHANGED <<taskVars, orchVars, dedupVars, stageVars, eqVars, scriptVars, ttsVars,
                   fileVars>>

\* lines 135-146: deduplicate_content keeps at least one post of a non-empty list;
\* with too few unique posts main returns
MainDedup ==
    /\ main_pc = "deduplicate_content"
    /\ \E o \in Outcomes :
          /\ stages' = Append(stages, Called("deduplicate_content", o))
          /\ IF o = "raised"
             THEN /\ main_pc' = "except"
                  /\ caught' = "deduplicate_content"
                  /\ UNCHANGED unique
             ELSE /\ unique' \in {n \in 0..collected : n = 0 <=> collected = 0}
                  /\ main_pc' = IF Insufficient(unique') THEN "returned" ELSE "aggregate_posts"
                  /\ UNCHANGED caught
    /\ UNCHANGED <<config_ok, time_period, confirmed, collected, show_trace>>
    /\ UNCHANGED <<taskVars, orchVars, dedupVars, stageVars, eqVars, scriptVars, ttsVars,
                   fileVars>>

\* line 150
MainAggregate ==
    /\ RunStage("aggregate_posts", "generate_script")
    /\ UNCHANGED <<config_ok, time_period, confirmed, collected, unique, show_trace>>
    /\ UNCHANGED <<taskVars, orchVars, dedupVars, stageVars, eqVars, scriptVars, ttsVars,
                   fileVars>>

\* a plausible slip: a failure of generate_script is passed over and the run goes on
MainScriptGoesOn ==
    /\ main_pc = "generate_script"
    /\ \E o \in Outcomes : stages' = Append(stages, Called("generate_script", o))
    /\ main_pc' = "text_to_speech"
    /\ UNCHANGED <<config_ok, time_period, confirmed, collected, unique, caught, show_trace>>
    /\ UNCHANGED <<taskVars, orchVars, dedupVars, stageVars, eqVars, scriptVars, ttsVars,
                   fileVars>>

\* lines 151-153
MainScript ==
    /\ RunStage("generate_script", "text_to_speech")
    /\ UNCHANGED <<config_ok, time_period, confirmed, collected, unique, show_trace>>
    /\ UNCHANGED <<taskVars, orchVars, dedupVars, stageVars, eqVars, scriptVars, ttsVars,
                   fileVars>>

\* lines 155-160
MainTts ==
    /\ RunStage("text_to_speech", "save_audio")
    /\ UNCHANGED <<config_ok, time_period, confirmed, collected, unique, show_trace>>
    /\ UNCHANGED <<taskVars, orchVars, dedupVars, stageVars, eqVars, scriptVars, ttsVars,
                   fileVars>>

\* lines 162-175: save_audio, then the success summary
MainSave ==
    /\ RunStage("save_audio", "returned")
    /\ UNCHANGED <<config_ok, time_period, confirmed, collected, unique, show_trace>>
    /\ UNCHANGED <<taskVars, orchVars, dedupVars, stageVars, eqVars, scriptVars, ttsVars,
                   fileVars>>

\* lines 177-181: the except clause prints the error and offers the trace
MainExcept ==
    /\ main_pc = "except"
    /\ show_trace' \in BOOLEAN
    /\ main_pc' = "returned"
    /\ UNCHANGED <<config_ok, time_period, confirmed, stages, collected, unique, caught>>
    /\ UNCHANGED <<taskVars, orchVars, dedupVars, stageVars, eqVars, scriptVars, ttsVars,
                   fileVars>>

\* main() entered
InitMain ==
    /\ TaskInit
    /\ ScrapeOff
    /\ DedupOff
    /\ StagesOff
    /\ EqOff
    /\ ScriptOff
    /\ TtsOff
    /\ FileOff
    /\ main_pc = "validate"
    /\ config_ok \in BOOLEAN
    /\ time_period = 0
    /\ confirmed = FALSE
    /\ stages = <<>>
    /\ collected = 0
    /\ unique = 0
    /\ caught = "none"
    /\ show_trace = FALSE

NextMain ==
    \/ MainValidate
    \/ MainPrompt
    \/ MainConfirm
    \/ MainScrape
    \/ MainDedup
    \/ MainAggregate
    \/ MainScript
    \/ MainTts
    \/ MainSave
    \/ MainExcept

SpecMain == InitMain /\ [][NextMain]_vars

----------------------------------------------------------------------------
\* Properties of scrape_all_sources, checked under Spec

Registered == 1..Len(vc_sources)
Done == pc \in {"returned", "raised"}
Count(seq, x) == Cardinality({i \in DOMAIN seq : seq[i] = x})
Elems(seq) == {seq[i] : i \in DOMAIN seq}

RECURSIVE ReturnedLen(_)
\* the total length of the lists returned by the tasks 1..n that returned
ReturnedLen(n) ==
    IF n = 0 THEN 0
    ELSE (IF tstate[n] = "returned" THEN Len(tresult[n]) ELSE 0) + ReturnedLen(n - 1)

RECURSIVE ReturnedCount(_, _)
\* the number of occurrences of x in the lists returned by the tasks 1..n
ReturnedCount(n, x) ==
    IF n = 0 THEN 0
    ELSE (IF tstate[n] = "returned" THEN Count(tresult[n], x) ELSE 0) + ReturnedCount(n - 1, x)

ErrorEntries(t) == Cardinality({i \in DOMAIN errors : errors[i][1] = vc_sources[t].name})

\* C1: if at least one source's scrape_source call succeeded (an empty list
\* included), scrape_all_sources returns a list without raising; it raises only
\* when no source succeeded and at least one failed.
C1_RaisesOnlyWhenAllFailed ==
    /\ (Done /\ \E t \in Registered : tstate[t] = "returned") => pc = "returned"
    /\ pc = "raised" => /\ Registered # {}
                        /\ \A t \in Registered : tstate[t] = "raised"

\* C2: when the source list is non-empty and every scrape_source call failed,
\* scrape_all_sources raises ScraperError and returns no records.
C2_AllFailedRaises ==
    (Done /\ Registered # {} /\ \A t \in Registered : tstate[t] = "raised")
        => /\ pc = "raised"
           /\ raisedErr.type = "ScraperError"
           /\ result = <<>>

C2_Witness ==
    /\ pc = "raised"
    /\ Len(vc_sources) >= 2
    /\ \A t \in Registered : tstate[t] = "raised" /\ fetches[t] = MAX_RETRIES

\* C3: scrape_source is invoked exactly once per registered source and its outcome
\* is consumed exactly once (its posts appended once, or one error entry recorded)
\* before scrape_all_sources returns or raises.
C3_EachSourceObservedOnce ==
    /\ \A t \in Tasks : calls[t] <= 1 /\ yielded[t] <= 1
    /\ Done =>
         /\ \A t \in Tasks :
              IF t \in Registered
              THEN /\ calls[t] = 1
                   /\ yielded[t] = 1
                   /\ Finished(t)
                   /\ ErrorEntries(t) = IF tstate[t] = "raised" THEN 1 ELSE 0
              ELSE calls[t] = 0 /\ yielded[t] = 0
         /\ Len(all_posts) = ReturnedLen(Len(vc_sources))
         /\ Len(errors) = Cardinality({t \in Registered : tstate[t] = "raised"})

C3_Witness ==
    /\ pc = "returned"
    /\ Len(vc_sources) >= 2
    /\ tstate[1] = "returned" /\ tresult[1] # <<>>
    /\ tstate[2] = "raised"
    /\ Len(errors) = 1

\* C4: the returned list is, as a multiset, the union of the lists returned by the
\* sources that succeeded; a failed source contributes nothing and stops no other
\* source from running and having its records included.
C4_ResultIsUnionOfSuccesses ==
    pc = "returned" =>
        /\ \A t \in Registered : Finished(t) /\ calls[t] = 1
        /\ Len(result) = ReturnedLen(Len(vc_sources))
        /\ \A x \in Elems(result) \cup UNION {Elems(tresult[t]) : t \in Registered} :
              Count(result, x) = ReturnedCount(Len(vc_sources), x)

C4_Witness ==
    /\ pc = "returned"
    /\ Len(vc_sources) >= 2
    /\ tstate[1] = "raised"
    /\ tstate[2] = "returned" /\ Len(tresult[2]) >= 2
    /\ result = tresult[2]

----------------------------------------------------------------------------
\* Properties of scrape_source, checked under SpecScrape (a direct call, task 1)

Last(seq) == seq[Len(seq)]
Failures(seq) == Cardinality({i \in DOMAIN seq : seq[i] # "ok"})
GivenRetries(t) == targ[t] # <<>> /\ targ[t][1] >= 1

\* C5: for every max_retries >= 1, if every attempt fails, scrape_source makes
\* exactly max_retries fetch attempts and then raises ScraperError.
C5_ExactlyMaxRetriesAttempts ==
    \A t \in Tasks :
        GivenRetries(t) =>
            /\ fetches[t] <= targ[t][1]
            /\ (Finished(t) /\ Failures(outcomes[t]) = Len(outcomes[t]))
                  => /\ tstate[t] = "raised"
                     /\ terror[t].type = "ScraperError"
                     /\ fetches[t] = targ[t][1]
                     /\ Len(outcomes[t]) = targ[t][1]
            /\ tstate[t] = "raised" => fetches[t] = targ[t][1]

C5_Witness ==
    /\ targ[1] = <<2>>
    /\ tstate[1] = "raised"
    /\ fetches[1] = 2
    /\ outcomes[1] = <<"Timeout", "Timeout">>

C7_FirstSuccessReturns ==
    \A t \in Tasks :
        /\ \A i \in DOMAIN outcomes[t] : outcomes[t][i] = "ok" => i = Len(outcomes[t])
        /\ Len(outcomes[t]) = fetches[t]
        /\ (outcomes[t] # <<>> /\ Last(outcomes[t]) = "ok") =>
              /\ tstate[t] = "returned"
              /\ fetches[t] <= max_retries[t]
              /\ tresult[t] = filter_by_date(parse_blog_html(html[t], SourceConfig(t)),
                                             start_date, end_date)

C7_Witness ==
    /\ tstate[1] = "returned"
    /\ outcomes[1] = <<"Timeout", "SelectorSyntaxError", "ok">>
    /\ html[1] = DocMixed
    /\ Len(tresult[1]) = 1

\* C8: whenever scrape_source returns, the returned list is the complete filtered
\* result of one single successful fetch-parse-filter attempt; a failing call
\* yields no records.
C8_AllOrNothing ==
    \A t \in Tasks :
        /\ tstate[t] = "returned" =>
              /\ outcomes[t] # <<>>
              /\ Last(outcomes[t]) = "ok"
              /\ tresult[t] = filter_by_date(parse_blog_html(html[t], SourceConfig(t)),
                                             start_date, end_date)
        /\ tstate[t] = "raised" => tresult[t] = <<>>

\* C9: every exception raised out of scrape_source for a fetch, parse or filter
\* failure is a ScraperError that names the source and the attempt count and is
\* chained to the last underlying error.
C9_FailureIsWrapped ==
    \A t \in Tasks :
        /\ tstate[t] = "raised" =>
              /\ terror[t].type = "ScraperError"
              /\ terror[t].name = SourceConfig(t).name
              /\ terror[t].attempts = fetches[t]
              /\ terror[t].cause = Last(outcomes[t])
              /\ terror[t].cause \in FetchErrors \cup ParseErrors
        /\ tstate[t] # "raised" => terror[t] = NoError

C9_Witness ==
    /\ tstate[1] = "raised"
    /\ outcomes[1] = <<"Timeout", "SelectorSyntaxError">>
    /\ terror[1].cause = "SelectorSyntaxError"
    /\ terror[1].attempts = 2

----------------------------------------------------------------------------
\* Properties of deduplicate_content, checked under SpecDedup

NoRepeatedUrl(seq) ==
    \A i, j \in DOMAIN seq : (i < j /\ seq[i].url = seq[j].url) => seq[i].url = <<>>

\* C10: for every input list and every threshold, the output of
\* deduplicate_content never holds two records with the same non-empty URL,
\* however similar or dissimilar their titles and bodies.
C10_NoRepeatedUrl ==
    /\ NoRepeatedUrl(unique_posts)
    /\ dpc = "done" => NoRepeatedUrl(deduped)

C10_Witness ==
    /\ dpc = "done"
    /\ Len(posts) = 3
    /\ posts[1].url # <<>>
    /\ posts[3].url = posts[1].url
    /\ posts[2].url # posts[1].url
    /\ ~_is_similar_content(posts[3], posts[1], similarity_threshold)
    /\ ~_is_similar_content(posts[3], posts[2], similarity_threshold)
    /\ deduped = <<posts[1], posts[2]>>


\* C11: for a two-record input whose URLs differ or are empty, deduplicate_content
\* returns only the first record iff the title ratio is strictly above the threshold,
\* or both bodies are non-empty and the ratio of their first 500 characters is
\* strictly above it; otherwise (a ratio equal to the threshold included) it returns
\* both records. The ratios are those of SequenceMatcher(None, incoming, kept).
First500(s) == SubSeq(s, 1, IF Len(s) < 500 THEN Len(s) ELSE 500)
StrictlyAbove(r, th) == r[1] * th[2] > th[1] * r[2]
SameRatio(r, th) == r[1] * th[2] = th[1] * r[2]
TitleRatio(xs) == ratio(xs[2].title, xs[1].title)
BodyRatio(xs) == ratio(First500(xs[2].content), First500(xs[1].content))
BothBodies(xs) == xs[1].content # <<>> /\ xs[2].content # <<>>
PairCase ==
    /\ dpc = "done"
    /\ pass = 1
    /\ Len(original) = 2
    /\ ~(original[1].url # <<>> /\ original[1].url = original[2].url)
C11_PairRule ==
    PairCase =>
        IF \/ StrictlyAbove(TitleRatio(original), similarity_threshold)
           \/ /\ BothBodies(original)
              /\ StrictlyAbove(BodyRatio(original), similarity_threshold)
        THEN deduped = <<original[1]>>
        ELSE deduped = original
\* reached: a title ratio exactly at the threshold, bodies not similar, both kept
C11_Witness ==
    /\ PairCase
    /\ SameRatio(TitleRatio(original), similarity_threshold)
    /\ BothBodies(original)
    /\ ~StrictlyAbove(BodyRatio(original), similarity_threshold)
    /\ deduped = original

\* C12: deduplicate_content is first-seen-wins. At every point of the loop the kept
\* list is a subsequence, in input order, of the records processed so far, and it
\* begins with the first input record; the list returned is the kept list after the
\* whole input was processed (so [] gives []); and within one call the kept list
\* only grows at its end: no kept record is removed, merged or replaced.
RECURSIVE IsSubseq(_, _)
IsSubseq(s, t) ==
    IF s = <<>> THEN TRUE
    ELSE IF t = <<>> THEN FALSE
    ELSE IF Head(s) = Head(t) THEN IsSubseq(Tail(s), Tail(t))
    ELSE IsSubseq(s, Tail(t))
IsPrefix(s, t) == Len(s) <= Len(t) /\ SubSeq(t, 1, Len(s)) = s
KeptSoFar ==
    dpc \in {"loop", "done"} =>
        /\ IsSubseq(unique_posts, SubSeq(posts, 1, idx))
        /\ idx >= 1 => unique_posts # <<>> /\ unique_posts[1] = posts[1]
        /\ dpc = "done" => idx = Len(posts) /\ deduped = unique_posts
KeptStays == pass' = pass => IsPrefix(unique_posts, unique_posts')
C12_FirstSeenWins == [](KeptSoFar) /\ [][KeptStays]_vars
\* reached: of three records the second was dropped and the third kept after it
C12_Witness ==
    /\ dpc = "done"
    /\ pass = 1
    /\ Len(posts) = 3
    /\ posts[2] # posts[1]
    /\ posts[2] # posts[3]
    /\ deduped = <<posts[1], posts[3]>>

\* C13: deduplicate_content is idempotent: called on the list it returned, with the
\* same threshold, it returns that list (same records, same order).
C13_Idempotent == (dpc = "done" /\ pass = 2) => deduped = posts
\* reached: the first call dropped a record and kept two, the second call returned
C13_Witness ==
    /\ dpc = "done"
    /\ pass = 2
    /\ Len(posts) < Len(original)
    /\ Len(posts) >= 2
    /\ deduped = posts

----------------------------------------------------------------------------
\* Properties of filter_by_date

\* start <= d <= end on wall-clock values, whatever tzinfo each carries
InsideWindow(d) == start_date.t <= d.t /\ d.t <= end_date.t

\* C14: filter_by_date returns exactly the input posts whose date d satisfies
\* start_date <= d <= end_date once tzinfo is stripped from d and both bounds: each
\* post inside the window (its ends included) is returned as often as it occurs in
\* the input, and no post outside the window is returned.
C14_ExactlyInsideWindow ==
    fpc = "done" =>
        \A p \in FilterPool :
            Count(filtered, p) = IF InsideWindow(p.date) THEN Count(fposts, p) ELSE 0
\* reached: an aware post exactly at a naive start and a naive post exactly at an
\* aware end are retained, and a post after the end is dropped
C14_Witness ==
    /\ fpc = "done"
    /\ ~start_date.tz
    /\ end_date.tz
    /\ start_date.t < end_date.t
    /\ \E i, j \in DOMAIN filtered :
          /\ filtered[i].date = Aware(start_date.t)
          /\ filtered[j].date = Naive(end_date.t)
    /\ \E k \in DOMAIN fposts : fposts[k].date.t > end_date.t

\* C15: filter_by_date is order-preserving: the list it returns is a subsequence of
\* its input (same relative order, nothing duplicated or invented).
C15_OrderPreserving == fpc = "done" => IsSubseq(filtered, fposts)
\* reached: two different records retained, a record between them dropped
C15_Witness ==
    /\ fpc = "done"
    /\ Len(fposts) = 3
    /\ filtered = <<fposts[1], fposts[3]>>
    /\ fposts[1] # fposts[3]
    /\ ~InsideWindow(fposts[2].date)

----------------------------------------------------------------------------
\* Properties of aggregate_posts

\* positions of the section headings of the document
SectionStarts == {i \in DOMAIN document.lines : document.lines[i].kind = "section"}
\* the lines of the section whose heading is at position i
SectionBody(i) ==
    LET later == {j \in SectionStarts : j > i}
        stop == IF later = {} THEN Len(document.lines) + 1
                ELSE CHOOSE j \in later : \A k \in later : j <= k
    IN SubSeq(document.lines, i + 1, stop - 1)
\* the input records of source name
RecordsOf(name) == LET OfName(p) == p.source = name IN SelectSeq(aposts, OfName)
\* qs holds the records of ps, each as often, in some order
IsPermutation(qs, ps) ==
    /\ Len(qs) = Len(ps)
    /\ \A i \in DOMAIN ps : Count(qs, ps[i]) = Count(ps, ps[i])
DateDescending(qs) == \A i, j \in DOMAIN qs : i < j => qs[i].date.t >= qs[j].date.t
\* body shows exactly the records ps, newest first
ShowsNewestFirst(body, ps) ==
    \E f \in [DOMAIN ps -> DOMAIN ps] :
        LET qs == [i \in DOMAIN ps |-> ps[f[i]]]
        IN IsPermutation(qs, ps) /\ DateDescending(qs) /\ body = render_posts(qs)
InputSources == {aposts[i].source : i \in DOMAIN aposts}
SectionsPerSource ==
    /\ Cardinality(SectionStarts) = Cardinality(InputSources)
    /\ InputSources = {} => document.lines = <<>>
    /\ \A name \in InputSources :
          \E i \in SectionStarts :
              /\ document.lines[i].s = name
              /\ ShowsNewestFirst(SectionBody(i), RecordsOf(name))

\* C16: aggregate_posts of N records from K distinct sources renders exactly K
\* sections (none, and an empty document, for K = 0), one per source, each showing
\* exactly the records of its source, newest first.
C16_SectionsPerSource ==
    apc = "done" => document.raised = "none" /\ SectionsPerSource

\* the header line of the given kind, when there is exactly one
HeaderLines(kind) == {i \in DOMAIN document.lines : document.lines[i].kind = kind}
OldestDay == CHOOSE d \in {strftime(aposts[i].date) : i \in DOMAIN aposts} :
                 \A i \in DOMAIN aposts : d <= strftime(aposts[i].date)
NewestDay == CHOOSE d \in {strftime(aposts[i].date) : i \in DOMAIN aposts} :
                 \A i \in DOMAIN aposts : d >= strftime(aposts[i].date)
HeaderMetadata ==
    /\ \E i \in DOMAIN document.lines :
          HeaderLines("total") = {i} /\ document.lines[i].n = Len(aposts)
    /\ \E i \in DOMAIN document.lines :
          /\ HeaderLines("range") = {i}
          /\ document.lines[i].n = OldestDay
          /\ document.lines[i].m = NewestDay

\* C17: for every non-empty input, in any order, the header reports Total Posts =
\* the number of input records and Date Range = the earliest to the latest date of
\* the input.
C17_HeaderMetadata ==
    (apc = "done" /\ aposts # <<>>) => document.raised = "none" /\ HeaderMetadata

----------------------------------------------------------------------------
\* Properties of the pipeline

\* C18: once scraping returned records, deduplicate_content followed by
\* aggregate_posts completes without raising, for every list the extractor and the
\* range filter can produce, lists mixing aware and naive dates included.
C18_PipelineNeverRaises == apc = "done" => document.raised = "none"

----------------------------------------------------------------------------
\* Properties of parse_blog_html

\* an article element with a title element and a date element whose date parses
WellFormed(a) == a.hasTitle /\ a.dkind = "ok"
Malformed(a) == ~WellFormed(a)
WellFormedOf(doc) == SelectSeq(doc, WellFormed)

\* C19: parse_blog_html skips an article element without title element, without
\* date element or with a date that cannot be parsed, and goes on; every other
\* article element yields exactly one record, the records in document order.
C19_SkipsAndKeepsOrder ==
    ppc = "done" =>
        /\ Len(parsed) = Len(WellFormedOf(phtml))
        /\ \A i \in DOMAIN parsed :
              /\ parsed[i].date = WellFormedOf(phtml)[i].date
              /\ parsed[i].title = get_text(WellFormedOf(phtml)[i].title)
              /\ parsed[i].source = SourceConfig(1).name
\* reached: a malformed element between two well-formed ones, both of which gave
\* their record
C19_Witness ==
    /\ ppc = "done"
    /\ Len(phtml) = 3
    /\ WellFormed(phtml[1])
    /\ Malformed(phtml[2])
    /\ WellFormed(phtml[3])
    /\ phtml[1] # phtml[3]
    /\ Len(parsed) = 2

\* C20: every record parse_blog_html returns has a non-empty title, also when the
\* title element is there but its text is empty or only whitespace.
C20_TitlesNonEmpty ==
    ppc = "done" => \A i \in DOMAIN parsed : parsed[i].title # <<>>
----------------------------------------------------------------------------
\* Properties of BlogPost equality

IsPost(i) == operands[i].cls = "BlogPost"
SameTriple(i, j) ==
    /\ operands[i].title = operands[j].title
    /\ operands[i].source = operands[j].source
    /\ operands[i].url = operands[j].url

\* C21: two BlogPost records are equal iff their (title, source, url) triples are
\* equal, whatever their date, content and excerpt; the equality is reflexive,
\* symmetric and transitive; equal records have equal hashes; and a BlogPost is
\* never equal to a value that is no BlogPost.
C21_EqualityOnTriple ==
    epc = "done" =>
        /\ \A i, j \in 1..3 :
              /\ (IsPost(i) /\ IsPost(j)) => (verdicts.eq[i][j] <=> SameTriple(i, j))
              /\ (IsPost(i) /\ ~IsPost(j)) => (~verdicts.eq[i][j] /\ ~verdicts.eq[j][i])
              /\ (IsPost(i) /\ IsPost(j) /\ verdicts.eq[i][j]) =>
                     verdicts.hash[i] = verdicts.hash[j]
              /\ IsPost(i) => verdicts.eq[i][i]
              /\ verdicts.eq[i][j] => verdicts.eq[j][i]
        /\ (verdicts.eq[1][2] /\ verdicts.eq[2][3]) => verdicts.eq[1][3]
\* reached: three posts, equal though each differs from the others in date, content
\* or excerpt
C21_Witness ==
    /\ epc = "done"
    /\ \A i \in 1..3 : IsPost(i)
    /\ operands[1].date # operands[2].date
    /\ operands[2].content # operands[3].content
    /\ operands[1].excerpt # operands[3].excerpt
    /\ verdicts.eq[1][2]
    /\ verdicts.eq[2][3]
    /\ verdicts.eq[1][3]
----------------------------------------------------------------------------
\* More properties of scrape_all_sources, checked under Spec

\* the scrape_source invocations in progress (attempting, or sleeping before a retry)
InFlight == {t \in Tasks : Running(t)}

\* C22: during scrape_all_sources at most max_workers scrape_source invocations are
\* in progress at any moment, and still every registered source is submitted (and
\* has been invoked by the time scrape_all_sources ends).
C22_AtMostMaxWorkersInFlight ==
    /\ Cardinality(InFlight) <= max_workers
    /\ submitted <= Len(vc_sources)
    /\ Done => /\ submitted = Len(vc_sources)
               /\ \A t \in Registered : calls[t] = 1
\* reached: every worker is busy while a submitted call waits in the queue
C22_Witness ==
    /\ pc = "submit"
    /\ submitted = Len(vc_sources)
    /\ Cardinality(InFlight) = max_workers
    /\ \E t \in Registered : tstate[t] = "queued"

\* C23: with an empty source registry scrape_all_sources invokes no scrape and
\* returns the empty list without raising.
C23_EmptyRegistry ==
    vc_sources = <<>> =>
        /\ pc # "raised"
        /\ \A t \in Tasks : calls[t] = 0 /\ fetches[t] = 0
        /\ pc = "returned" => result = <<>>
\* reached: the call with no source returned
C23_Witness ==
    /\ vc_sources = <<>>
    /\ pc = "returned"
    /\ result = <<>>
    /\ raisedErr = NoRaise

\* the names in the error list of the exception, in order
ReportedNames == [i \in DOMAIN raisedErr.errors |-> raisedErr.errors[i][1]]

\* C24: when scrape_all_sources raises, the error list it reports has exactly one
\* (source name, cause) entry for every registered source and no entry for any
\* other name, whatever the completion order.
C24_ErrorListNamesEverySource ==
    pc = "raised" =>
        /\ \A t \in Registered : Count(ReportedNames, vc_sources[t].name) = 1
        /\ \A i \in DOMAIN ReportedNames :
              \E t \in Registered : ReportedNames[i] = vc_sources[t].name
----------------------------------------------------------------------------
\* More properties of aggregate_posts

\* the position input record i takes when the input is sorted by date, newest
\* first, records of equal date in input order
RankOf(i) ==
    1 + Cardinality({j \in DOMAIN aposts :
                        \/ aposts[j].date.t > aposts[i].date.t
                        \/ aposts[j].date.t = aposts[i].date.t /\ j < i})
StableNewestFirst == [k \in DOMAIN aposts |-> aposts[CHOOSE i \in DOMAIN aposts : RankOf(i) = k]]
\* the records of source name, in that order
GroupOf(name) == LET OfName(p) == p.source = name IN SelectSeq(StableNewestFirst, OfName)
\* where source name first appears in that order
FirstAppearance(name) ==
    CHOOSE k \in DOMAIN aposts :
        /\ StableNewestFirst[k].source = name
        /\ \A l \in DOMAIN aposts : StableNewestFirst[l].source = name => k <= l
StableGroupedRendering ==
    /\ {document.lines[i].s : i \in SectionStarts} = InputSources
    /\ Cardinality(SectionStarts) = Cardinality(InputSources)
    /\ \A i, j \in SectionStarts :
          i < j => FirstAppearance(document.lines[i].s) < FirstAppearance(document.lines[j].s)
    /\ \A i \in SectionStarts :
          /\ SectionBody(i) = render_posts(GroupOf(document.lines[i].s))
          /\ document.lines[i].n = Len(GroupOf(document.lines[i].s))

\* C25: in aggregate_posts records of equal date keep their input order, the source
\* sections come in the order in which the sources first appear in the date-sorted
\* list, every input record is rendered exactly once (in the section of its source),
\* and each section heading gives the number of records of its section.
C25_StableGroupedRendering ==
    apc = "done" => document.raised = "none" /\ StableGroupedRendering
----------------------------------------------------------------------------
\* Properties of generate_script

\* C26: generate_script makes at most max_retries API calls; it returns the first
\* reply that passes validate_script and makes no call after it; if every attempt
\* ends in an API error or a rejected (or empty) script, it raises
\* ScriptGenerationError after exactly max_retries calls.
C26_AtMostMaxRetriesCalls ==
    gpc # "off" =>
        /\ gcalls <= gmax
        /\ gcalls = Len(greplies)
        /\ \A i \in 1..(Len(greplies) - 1) : ~Accepted(greplies[i])
        /\ gpc = "returned" =>
              /\ greplies # <<>>
              /\ Accepted(greplies[Len(greplies)])
              /\ gscript = greplies[Len(greplies)]
        /\ gpc = "raised" =>
              /\ gerror.type = "ScriptGenerationError"
              /\ gcalls = gmax
              /\ \A i \in DOMAIN greplies : ~Accepted(greplies[i])
        /\ (gcalls = gmax /\ \A i \in DOMAIN greplies : ~Accepted(greplies[i]))
              => gpc = "raised" \/ (gpc = "loop" /\ gmax = 0)
\* reached: an API error, a rejected script, then the last allowed call fails too
C26_Witness ==
    /\ gpc = "raised"
    /\ gmax = 3
    /\ gcalls = 3
    /\ greplies[1].kind = "error"
    /\ greplies[2].kind = "text"
    /\ gerror.cause = "Script quality insufficient"
----------------------------------------------------------------------------
\* Properties of text_to_speech

\* the attempt gave audio that passes validate_audio
GoodAudio(entry) == entry.outcome.kind = "audio" /\ validate_audio(entry.outcome)

C28_BackoffOnlyOnRateLimit ==
    \A i \in DOMAIN tts_log :
        tts_log[i].slept =
            IF /\ tts_log[i].outcome.kind = "error"
               /\ tts_log[i].outcome.status = 429
               /\ i - 1 < tts_max - 1
            THEN RETRY_DELAY * Pow2(i - 1)
            ELSE 0
----------------------------------------------------------------------------
\* Properties of save_audio and handle_collision

\* every counter from 2 up to the safety limit names an existing file
AllCountersTaken(dir) == \A k \in 2..COLLISION_LIMIT : k \in files[dir]

\* saving to the desktop fails: get_desktop_path raises, handle_collision runs out
\* of counters, or the write fails
DesktopFails ==
    \/ desktop_state # "ok"
    \/ 1 \in files["desktop"] /\ AllCountersTaken("desktop")
    \/ write_fails

\* saving to the current directory fails
CwdFails ==
    \/ ~cwd_writable
    \/ 1 \in files["cwd"] /\ AllCountersTaken("cwd")

\* C29: whenever saving to the desktop fails (the desktop path is missing, not a
\* directory or not writable, or the write itself fails) and the current directory
\* can take the file, save_audio writes the audio to the current directory and
\* returns that path; it raises FileHandlerError only when both locations fail; for
\* empty audio data it raises without writing anything.
C29_FallsBackToCwd ==
    save_pc \in {"returned", "raised"} =>
        /\ save_data = "empty" => (save_pc = "raised" /\ written = {})
        /\ (save_data = "bytes" /\ DesktopFails /\ ~CwdFails) =>
              /\ save_pc = "returned"
              /\ saved.dir = "cwd"
              /\ written = {saved}
        /\ (save_data = "bytes" /\ save_pc = "raised") =>
              /\ save_error.type = "FileHandlerError"
              /\ DesktopFails
              /\ CwdFails

\* C30: handle_collision returns the given path unchanged when no file exists there;
\* otherwise it returns <stem>_<k><suffix> in the same directory for the smallest
\* k >= 2 for which no file exists, so the returned path never names an existing
\* file and no file is written; it raises FileHandlerError, and the loop ends, when
\* all counters up to 1000 are taken.
C30_SmallestFreeCounter ==
    /\ hc_pc = "loop" => counter \in 2..COLLISION_LIMIT
    /\ save_pc = "off" => written = {}
    /\ hc_pc = "returned" =>
          /\ ~exists(hc_result)
          /\ hc_result.dir = filepath.dir
          /\ IF ~exists(filepath)
             THEN hc_result = filepath
             ELSE /\ hc_result.k \in 2..COLLISION_LIMIT
                  /\ \A j \in 2..(hc_result.k - 1) : exists(Path(filepath.dir, j))
    /\ hc_pc = "raised" =>
          /\ hc_error.type = "FileHandlerError"
          /\ exists(filepath)
          /\ AllCountersTaken(filepath.dir)
    /\ (hc_pc \in {"returned", "raised"} /\ exists(filepath)
          /\ AllCountersTaken(filepath.dir)) => hc_pc = "raised"
\* reached: the name and <stem>_2 exist, <stem>_3 is returned
C30_Witness ==
    /\ hc_pc = "returned"
    /\ files[filepath.dir] = {1, 2}
    /\ hc_result = Path(filepath.dir, 3)
----------------------------------------------------------------------------
\* Further properties of scrape_all_sources, checked under Spec

\* the tasks whose scrape_source call returned a list
ReturnedTasks == {t \in Registered : tstate[t] = "returned"}

\* the orders in which the returned tasks can have been yielded
YieldOrders ==
    {o \in [1..Cardinality(ReturnedTasks) -> ReturnedTasks] :
        \A i, j \in DOMAIN o : o[i] = o[j] => i = j}

RECURSIVE Blocks(_, _)
\* the lists of the first n tasks of the order o, one after the other
Blocks(o, n) == IF n = 0 THEN <<>> ELSE Blocks(o, n - 1) \o tresult[o[n]]

\* the records of one source in the returned list, in their order there
OfSource(seq, name) == SelectSeq(seq, LAMBDA p : p.source = name)

\* the positions of the records of one source form an interval
Contiguous(seq, name) ==
    \A i, j, k \in DOMAIN seq :
        (i < j /\ j < k /\ seq[i].source = name /\ seq[k].source = name)
            => seq[j].source = name

\* C31: for every completion order, the records of each source appear in the list
\* returned by scrape_all_sources as one contiguous block, in exactly the order in
\* which that source's scrape_source returned them; only the order of the blocks
\* depends on the completion order.
C31_BlocksPerSource ==
    pc = "returned" =>
        /\ \E o \in YieldOrders : result = Blocks(o, Len(o))
        /\ \A t \in Registered :
              /\ Contiguous(result, vc_sources[t].name)
              /\ OfSource(result, vc_sources[t].name) =
                    IF tstate[t] = "returned" THEN tresult[t] ELSE <<>>
\* reached: two sources with two records each, the block of the second source first
C31_Witness ==
    /\ pc = "returned"
    /\ Len(vc_sources) = 2
    /\ Len(tresult[1]) >= 2
    /\ Len(tresult[2]) >= 2
    /\ result = tresult[2] \o tresult[1]
----------------------------------------------------------------------------
\* Further properties of deduplicate_content, checked under SpecDedup

\* the non-empty URLs of the records of a list
NonEmptyUrls(seq) == {seq[i].url : i \in DOMAIN seq} \ {<<>>}

\* the incoming record has the non-empty URL of a kept record
UrlOfKept(post, kept) == post.url # <<>> /\ \E i \in DOMAIN kept : kept[i].url = post.url

\* the incoming record is a near-duplicate of a kept record
NearKept(post, kept, threshold) ==
    \E i \in DOMAIN kept : _is_similar_content(post, kept[i], threshold)

SeenAreKeptUrls == dpc \in {"loop", "done"} => seen_urls = NonEmptyUrls(unique_posts)

\* one iteration: the record is discarded or appended, by the kept records alone
DiscardRule ==
    idx' = idx + 1 =>
        LET post == posts[idx + 1]
        IN IF UrlOfKept(post, unique_posts)
              \/ NearKept(post, unique_posts, similarity_threshold)
           THEN unique_posts' = unique_posts /\ seen_urls' = seen_urls
           ELSE unique_posts' = Append(unique_posts, post)

\* C32: at every step of deduplicate_content the incoming record is discarded iff
\* its non-empty URL equals the URL of an already-kept record or it is a
\* near-duplicate of an already-kept record; discarded and not-yet-processed records
\* play no part; the seen-URL set always equals the set of non-empty URLs of the
\* kept records.
C32_DiscardByKeptOnly == [](SeenAreKeptUrls) /\ [][DiscardRule]_vars
\* reached: the second record was discarded as a near-duplicate of the first; the
\* third is a near-duplicate of the discarded record only, and was kept
C32_Witness ==
    /\ dpc = "done"
    /\ pass = 1
    /\ Len(posts) = 3
    /\ _is_similar_content(posts[2], posts[1], similarity_threshold)
    /\ _is_similar_content(posts[3], posts[2], similarity_threshold)
    /\ ~_is_similar_content(posts[3], posts[1], similarity_threshold)
    /\ posts[2].url # <<>>
    /\ deduped = <<posts[1], posts[3]>>
    /\ seen_urls = NonEmptyUrls(deduped)
    /\ posts[2].url \notin seen_urls

\* no two records of the list are near-duplicates of each other
PairwiseDistinct(seq, threshold) ==
    \A i, j \in DOMAIN seq : i < j => ~_is_similar_content(seq[j], seq[i], threshold)

\* C33: records with an empty URL are never discarded by the exact-URL rule and
\* never enter the seen-URL set: empty-URL records whose titles and bodies are
\* pairwise not near-duplicates are all kept by deduplicate_content.
C33_EmptyUrlsAllKept ==
    dpc \in {"loop", "done"} =>
        /\ <<>> \notin seen_urls
        /\ (/\ \A i \in 1..idx : posts[i].url = <<>>
            /\ PairwiseDistinct(SubSeq(posts, 1, idx), similarity_threshold))
              => unique_posts = SubSeq(posts, 1, idx)
\* reached: three empty-URL records, pairwise not near-duplicates, all returned
C33_Witness ==
    /\ dpc = "done"
    /\ pass = 1
    /\ Len(posts) = 3
    /\ \A i \in 1..3 : posts[i].url = <<>>
    /\ PairwiseDistinct(posts, similarity_threshold)
    /\ deduped = posts
----------------------------------------------------------------------------
\* Properties of scrape_all_sources, checked under SpecFair

\* the call of task t went through its whole retry sequence: an attempt succeeded,
\* or all max_retries attempts failed
RanToCompletion(t) ==
    \/ /\ tstate[t] = "returned"
       /\ outcomes[t] # <<>>
       /\ outcomes[t][Len(outcomes[t])] = "ok"
    \/ /\ tstate[t] = "raised"
       /\ fetches[t] = max_retries[t]
       /\ \A i \in DOMAIN outcomes[t] : outcomes[t][i] # "ok"

NothingCancelled == Done => \A t \in Registered : RanToCompletion(t)

\* C34: a retry sequence is never cancelled: scrape_all_sources returns or raises
\* only after every source's scrape_source call has run to completion (success or
\* exhaustion of its attempts); and, each fetch returning or failing in finite time,
\* scrape_all_sources eventually returns or raises, for every source list and every
\* pattern of failures.
C34_CompletesAndTerminates == [](NothingCancelled) /\ <>(Done)
\* reached: one call succeeded on its last attempt, the other used up its attempts
C34_Witness ==
    /\ pc = "returned"
    /\ Len(vc_sources) = 2
    /\ tstate[1] = "returned" /\ fetches[1] = MAX_RETRIES
    /\ tstate[2] = "raised" /\ fetches[2] = MAX_RETRIES
----------------------------------------------------------------------------
\* Properties of the records, checked under SpecRecords

\* the titles of the records a document shows, in the order of the document
ShownTitles ==
    LET IsPostLine(l) == l.kind = "post"
        post_lines == SelectSeq(document.lines, IsPostLine)
    IN [i \in DOMAIN post_lines |-> post_lines[i].t]
TitlesOf(seq) == [i \in DOMAIN seq |-> seq[i].title]

\* what each function returned is made of whole records of its argument
BuiltFromArguments ==
    /\ fpc = "done" => IsSubseq(filtered, fposts)
    /\ dpc \in {"loop", "done"} => posts = filtered /\ IsSubseq(unique_posts, posts)
    /\ dpc = "done" => IsSubseq(deduped, fposts)
    /\ apc = "done" =>
          /\ aposts = deduped
          /\ document.raised = "none" => IsPermutation(ShownTitles, TitlesOf(deduped))

\* no step changes a list that was passed to, or returned by, an earlier function
ArgumentsStay ==
    /\ fposts' = fposts
    /\ fpc = "done" => filtered' = filtered
    /\ dpc \in {"loop", "done"} => posts' = posts
    /\ dpc = "done" => deduped' = deduped

\* C35: records are immutable after extraction: filter_by_date, scrape_all_sources,
\* deduplicate_content and aggregate_posts leave every field of every record
\* unchanged and do not modify the list passed to them; each returns a new list or
\* string built from the same records.
C35_RecordsUnchanged == [](BuiltFromArguments) /\ [][ArgumentsStay]_vars
\* reached: a record with tzinfo outside the date order went through all three
\* functions; the document shows the three records in another order than the list
C35_Witness ==
    /\ apc = "done"
    /\ document.raised = "none"
    /\ Len(fposts) = 3
    /\ \A i \in 1..3 : fposts[i].date.tz
    /\ deduped = fposts
    /\ ShownTitles # TitlesOf(deduped)
----------------------------------------------------------------------------
\* Further properties of scrape_source, checked under SpecScrape

\* C36: for every integer value of max_retries (None, 0 and negative values
\* included), scrape_source returns a list only after at least one fetch-parse-filter
\* attempt has succeeded and otherwise raises ScraperError; it never returns an
\* empty list without having made any attempt.
C36_ReturnsOnlyAfterSuccess ==
    \A t \in Tasks :
        /\ tstate[t] = "returned" =>
              /\ fetches[t] >= 1
              /\ \E i \in DOMAIN outcomes[t] : outcomes[t][i] = "ok"
        /\ (Finished(t) /\ \A i \in DOMAIN outcomes[t] : outcomes[t][i] # "ok") =>
              /\ tstate[t] = "raised"
              /\ terror[t].type = "ScraperError"
----------------------------------------------------------------------------
\* Properties of main, checked under SpecMain

StageOrder == <<"scrape_all_sources", "deduplicate_content", "aggregate_posts",
                "generate_script", "text_to_speech", "save_audio">>

\* the stage function was called in this run
Invoked(name) == \E i \in DOMAIN stages : stages[i].stage = name

\* C37: in every run of main the stages run in the fixed order scrape_all_sources,
\* deduplicate_content, aggregate_posts, generate_script, text_to_speech, save_audio;
\* none runs unless Config.validate() passed and the user confirmed; a stage starts
\* only if every earlier stage finished without an exception; an exception in a
\* stage is caught, no later stage runs, and main returns normally.
C37_StagesInOrder ==
    main_pc # "off" =>
        /\ Len(stages) <= Len(StageOrder)
        /\ \A i \in DOMAIN stages : stages[i].stage = StageOrder[i]
        /\ stages # <<>> => config_ok /\ confirmed
        /\ \A i \in 1..(Len(stages) - 1) : stages[i].outcome = "returned"
        /\ (stages # <<>> /\ stages[Len(stages)].outcome = "raised") =>
              /\ caught = stages[Len(stages)].stage
              /\ main_pc \in {"except", "returned"}
        /\ main_pc \in {"validate", "prompt", "confirm", "except", "returned"}
              \cup {StageOrder[i] : i \in DOMAIN StageOrder}
        /\ main_pc \in {StageOrder[i] : i \in DOMAIN StageOrder} =>
              main_pc = StageOrder[Len(stages) + 1]
\* reached: text_to_speech raised after four stages, main has returned
C37_Witness ==
    /\ main_pc = "returned"
    /\ Len(stages) = 5
    /\ caught = "text_to_speech"
    /\ ~Invoked("save_audio")

\* C38: in main, when deduplication leaves fewer than 3 unique posts the run stops:
\* aggregate_posts, generate_script, text_to_speech and save_audio are never invoked
\* in that run; with 3 or more unique posts the run goes on to the script
\* generation step (aggregate_posts, then generate_script).
C38_StopsBelowThreePosts ==
    (Len(stages) >= 2 /\ stages[2].outcome = "returned") =>
        IF unique < 3
        THEN /\ main_pc = "returned"
             /\ Len(stages) = 2
             /\ caught = "none"
             /\ \A i \in 3..6 : ~Invoked(StageOrder[i])
        ELSE /\ main_pc = "aggregate_posts" \/ Invoked("aggregate_posts")
             /\ (Invoked("aggregate_posts") /\ stages[3].outcome = "returned") =>
                   (main_pc = "generate_script" \/ Invoked("generate_script"))
\* reached: two unique posts of three collected, the run has stopped
C38_Witness ==
    /\ main_pc = "returned"
    /\ collected = 3
    /\ unique = 2
    /\ Len(stages) = 2
----------------------------------------------------------------------------
\* Further properties of text_to_speech, checked under SpecTts

\* the attempt failed, and not with a rate-limit error
OtherFailure(entry) ==
    /\ ~GoodAudio(entry)
    /\ ~(entry.outcome.kind = "error" /\ entry.outcome.status = 429)

\* C39: in text_to_speech, retries are for rate-limit errors only: a failure that is
\* not a rate-limit error raises TTSError immediately, without another conversion
\* call, even when attempts remain.
C39_OtherFailuresRaiseAtOnce ==
    \A i \in DOMAIN tts_log :
        OtherFailure(tts_log[i]) =>
            /\ i = Len(tts_log)
            /\ tts_pc = "raised"
            /\ tts_error.type = "TTSError"

====
